---- MODULE Spec2Model ----
(***************************************************************************)
(* A model of the streaming synthesis client of edge-tts-deno:             *)
(*   - splitTextByByteLength (utils/helpers.ts), the text chunker;         *)
(*   - SSMLGenerator (utils/ssml.ts), the markup builder and its size      *)
(*     arithmetic;                                                         *)
(*   - ReconnectManager.execute (utils/reconnect.ts);                      *)
(*   - WebSocketClient.connect / disconnect / streamWebSocket /            *)
(*     streamChunk / stream (core/websocket_client.ts).                    *)
(* Byte strings are sequences of byte values; a slice [from, to) of the    *)
(* code is SubSeq(s, from + 1, to).                                        *)
(***************************************************************************)
EXTENDS Integers, Sequences, FiniteSets, TLC

VARIABLES
    \* splitTextByByteLength (the generator WebSocketClient.texts)
    input,        \* the cleaned text handed to splitTextByByteLength
    text,         \* the local `text` (bytes not yet emitted)
    byteLength,   \* the byte budget
    gen,          \* position of the generator: "run", "done" or "threw"
    chunks,       \* the chunks the generator has yielded so far, in order
    \* WebSocketClient
    config,               \* TTSConfig, each string by its length
    partialText,          \* state.partialText
    offsetCompensation,   \* state.offsetCompensation
    lastDurationOffset,   \* state.lastDurationOffset
    streamWasCalled,      \* state.streamWasCalled
    ws,                   \* this.ws: 0 for null, else an index into channels
    rconfig,              \* ReconnectManager.config
    rstate,               \* ReconnectManager.state: [attempts, currentDelay]
    rlog,                 \* the current execute: operations invoked, its ReconnectResult, last event
    \* the activation of stream() and of the generators it drives
    pc,                   \* where stream() stands
    recovering,           \* stream() is in its catch block (403 recovery)
    audioReceived,        \* streamChunk: audioReceived
    messageQueue,         \* streamWebSocket: messageQueue
    wsError,              \* streamWebSocket: error # null
    wsDone,               \* streamWebSocket: done
    pending,              \* the record stream() is suspended on, after its yield
    result,               \* how stream() finished: "none" while it has not
    \* the transport and the service
    channels,             \* every WebSocket created: [readyState, closeCalls, chunk]
    arrived,              \* number of frames the service has delivered so far
    \* what an observer of the job has seen
    sent,                 \* the messages handed to ws.send on the socket this.ws
    last,                 \* the record delivered to the consumer last
    lastWord,             \* the word-boundary record delivered last
    serviceOrdered,       \* the Data.Offset values delivered so far never fell within a channel
    monotone,             \* the offsets delivered so far never fell
    chunkAudio,           \* an audio record was delivered for the current chunk
    calls,                \* number of stream() invocations pulled so far
    rejected,             \* number of those that threw "Stream can only be called once"
    \* DRM (static) and the response that refused the client
    clockSkewSeconds,     \* DRM.clockSkewSeconds
    serverDate,           \* the Date header of the 403 handed to DRM, until connect() runs
    now,                  \* the wall clock, Date.now()
    generated,            \* the calls of DRM.generateSecMsGec: clock, skew, token
    deltas,               \* the arguments of DRM.adjustClockSkewSeconds so far
    \* the service
    service,              \* the kind of service: "turn" or "metadata" (see FramesOf)
    \* the codec of text frames
    frameHeaders,         \* the header lines a frame is built from: [key, value]
    frameBody,            \* the body a frame is built from
    wire,                 \* the frame as built: <<>> before it is built
    decoded,              \* what the decoder made of the frame
    \* the caller
    cancelled,            \* where connect() stood when the caller gave the job up: "no" if it has not
    \* subtitles
    subtitle,             \* config.subtitle: "none", or the format of the generator
    cues,                 \* subtitleGenerator.cues
    hooked                \* the calls of subtitleGenerator.addCue so far: text, start, duration

splitVars == <<input, text, byteLength, gen, chunks>>

clientVars == <<config, partialText, offsetCompensation, lastDurationOffset,
                streamWasCalled, ws, rconfig, rstate, rlog>>

runVars == <<pc, recovering, audioReceived, messageQueue, wsError, wsDone,
             pending, result>>

envVars == <<channels, arrived>>

seenVars == <<sent, last, lastWord, serviceOrdered, monotone, chunkAudio,
             calls, rejected, cues, hooked>>

drmVars == <<clockSkewSeconds, serverDate>>

codecVars == <<frameHeaders, frameBody, wire, decoded>>

utilVars == <<now, generated, deltas, service, codecVars, cancelled, subtitle>>

jobVars == <<clientVars, runVars, envVars, seenVars, drmVars, utilVars>>

vars == <<splitVars, jobVars>>

----------------------------------------------------------------------------
(* Bounds of the model. *)

MaxTextLen == 5
MaxByteLength == 3

----------------------------------------------------------------------------
(* Bytes.  SPACE, AMP and SEMI are the three bytes the chunker tests for;  *)
(* LETTER stands for every other byte (one that escaping leaves alone).    *)

SPACE == 32
AMP == 38
SEMI == 59
LETTER == CHOOSE b \in 65..90 : TRUE

Bytes == {SPACE, AMP, SEMI, LETTER}

Texts == UNION {[1..n -> Bytes] : n \in 0..MaxTextLen}

Slice(s, from, to) == SubSeq(s, from + 1, to)

----------------------------------------------------------------------------
(* splitTextByByteLength, helpers.ts 40-93.                                *)

\* helpers.ts 54-60: scan i = byteLength down to 0 for a space; byteLength when none.
RECURSIVE SpaceScan(_, _, _)
SpaceScan(t, i, dflt) ==
    IF i < 0 THEN dflt
    ELSE IF t[i + 1] = SPACE THEN i
    ELSE SpaceScan(t, i - 1, dflt)

\* helpers.ts 63-71: the last '&' in [0, splitAt) with no ';' after it, or -1.
RECURSIVE AmpScan(_, _, _, _)
AmpScan(t, i, splitAt, ampIndex) ==
    IF i >= splitAt THEN ampIndex
    ELSE AmpScan(t, i + 1, splitAt,
                 IF t[i + 1] = SEMI THEN -1
                 ELSE IF t[i + 1] = AMP THEN i
                 ELSE ampIndex)

\* A variant of the hard split that cuts one byte too late.
HardSplitLate(splitAt, len) == IF splitAt = 0 THEN len + 1 ELSE splitAt

\* helpers.ts 78-80: no split point found, split at byteLength.
HardSplit(splitAt, len) == IF splitAt = 0 THEN len ELSE splitAt

\* helpers.ts 54-80: the split point of one loop iteration (Len(t) > len).
SplitAt(t, len) ==
    LET atSpace == SpaceScan(t, len, len)
        ampIndex == AmpScan(t, 0, atSpace, -1)
        atAmp == IF ampIndex # -1 THEN ampIndex ELSE atSpace
    IN  HardSplit(atAmp, len)

\* One resumption of the generator: run to the next yield, or to the end.
\* helpers.ts 48-50 throws on a non-positive budget at the first resumption.
SplitNext ==
    /\ gen = "run"
    /\ IF byteLength <= 0
       THEN /\ gen' = "threw"
            /\ UNCHANGED <<text, chunks>>
       ELSE IF Len(text) > byteLength
       THEN LET splitAt == SplitAt(text, byteLength)
                chunk == Slice(text, 0, splitAt)
            IN  /\ chunks' = IF Len(chunk) > 0 THEN Append(chunks, chunk) ELSE chunks
                /\ text' = Slice(text, splitAt, Len(text))
                /\ gen' = "run"
       ELSE /\ chunks' = IF Len(text) > 0 THEN Append(chunks, text) ELSE chunks
            /\ text' = <<>>
            /\ gen' = "done"
    /\ UNCHANGED <<input, byteLength>>

----------------------------------------------------------------------------
(* SSMLGenerator, utils/ssml.ts (src/unnamed/part_001).  A string is       *)
(* modelled by its length; a TTSConfig by the lengths of its four strings. *)

WEBSOCKET_MAX_SIZE == 65536
ErrorMargin == 50
CRLF == 2
RequestIdLen == 32
\* new Date().toISOString(): "2026-11-06T00:57:00.000Z"
IsoStringLen == 24
\* getCurrentDateString(), helpers.ts 99-102:
\* "Fri, 06 Nov 2026 00:57:00 GMT+0000 (Coordinated Universal Time)"
DateStringLen == 63

\* ssml.ts 37-42: the length of one character after escaping.
EscapedByteLen(b) ==
    CASE b = 38 -> Len("&amp;")
      [] b = 60 -> Len("&lt;")
      [] b = 62 -> Len("&gt;")
      [] b = 34 -> Len("&quot;")
      [] b = 39 -> Len("&apos;")
      [] OTHER -> 1

\* ssml.ts 32-43: the length of escapeText(text).
RECURSIVE escapeText(_)
escapeText(t) ==
    IF t = <<>> THEN 0 ELSE EscapedByteLen(Head(t)) + escapeText(Tail(t))

\* ssml.ts 16-26: the length of generate(config, text), given that of the escaped text.
generate(cfg, escapedLen) ==
    Len("<speak version='1.0' xmlns='http://www.w3.org/2001/10/synthesis' xml:lang='en-US'>")
    + Len("<voice name='") + cfg.voice + Len("'>")
    + Len("<prosody pitch='") + cfg.pitch + Len("' rate='") + cfg.rate
    + Len("' volume='") + cfg.volume + Len("'>")
    + escapedLen
    + Len("</prosody>") + Len("</voice>") + Len("</speak>")

\* ssml.ts 52-65: the length of the request, six lines joined by CRLF.
generateRequestHeaders(requestIdLen, timestampLen, ssmlLen) ==
    (Len("X-RequestId:") + requestIdLen) + CRLF
    + Len("Content-Type:application/ssml+xml") + CRLF
    + (Len("X-Timestamp:") + timestampLen + Len("Z")) + CRLF
    + Len("Path:ssml") + CRLF
    + 0 + CRLF
    + ssmlLen

\* ssml.ts 72-85.
calculateMaxMessageSize(cfg) ==
    LET overhead == generateRequestHeaders(RequestIdLen, IsoStringLen, generate(cfg, 0))
    IN  WEBSOCKET_MAX_SIZE - overhead - ErrorMargin

\* websocket_client.ts 245-250: the length of the message sendSSMLRequest sends.
SSMLRequestSize(cfg, chunk) ==
    generateRequestHeaders(RequestIdLen, DateStringLen, generate(cfg, escapeText(chunk)))

\* websocket_client.ts 66-69 and constants.ts 38: the default configuration.
DefaultConfig ==
    [voice |-> Len("zh-CN-XiaoxiaoNeural"), rate |-> Len("+0%"),
     volume |-> Len("+0%"), pitch |-> Len("+0Hz")]

\* The configuration whose voice name is so long that the budget is b bytes.
ConfigOfBudget(b) ==
    [DefaultConfig EXCEPT !.voice = @ + calculateMaxMessageSize(DefaultConfig) - b]

----------------------------------------------------------------------------
(* Errors, errors/tts_error.ts (src/unnamed/part_000): a name and the      *)
(* `status` property; status 0 stands for an error without that property.  *)

WebSocketError == [name |-> "WebSocketError", status |-> 500]
NoAudioReceived == [name |-> "NoAudioReceived", status |-> 400]
UnexpectedResponse == [name |-> "UnexpectedResponse", status |-> 500]
UnknownResponse == [name |-> "UnknownResponse", status |-> 500]
ConfigError == [name |-> "ConfigError", status |-> 400]
\* helpers.ts 49 and websocket_client.ts 400: a plain Error.
PlainError == [name |-> "Error", status |-> 0]
\* WebSocket.send is foreign code: what it throws may carry any status.
SendError(status) == [name |-> "SendError", status |-> status]

----------------------------------------------------------------------------
(* Frames as the service sends them.  form is "ok" for a frame whose header *)
(* block is found (text: CRLF CRLF present; binary: 2 <= length and header *)
(* length <= length), else the defect; path and ctype are the Path and     *)
(* Content-Type headers ("absent" when missing); body is the length of the *)
(* content; meta is the Metadata array of a text body; n is the arrival    *)
(* number the transport gives the frame.                                   *)

\* The Offset and Duration values the service of the job model uses.
Offsets == {0, 1}
Durations == {1}

\* An element of the Metadata array; Text is the length of Data.text.Text.
Element(type, offset, duration) ==
    [Type |-> type, Offset |-> offset, Duration |-> duration, Text |-> 1]

TextFrame(path, meta) ==
    [bin |-> FALSE, form |-> "ok", path |-> path, ctype |-> "absent", body |-> 0,
     meta |-> meta, n |-> 0]

BinaryFrame(path, ctype, body) ==
    [bin |-> TRUE, form |-> "ok", path |-> path, ctype |-> ctype, body |-> body,
     meta |-> <<>>, n |-> 0]

WordBoundaryFrames ==
    {TextFrame("audio.metadata", <<Element("WordBoundary", o, d)>>) :
        o \in Offsets, d \in Durations}

\* The frames the service of the job model sends: the frames of a turn, and
\* one frame the Driver rejects.
ServiceFrames ==
    WordBoundaryFrames
    \cup {TextFrame("turn.start", <<>>), TextFrame("turn.end", <<>>),
          TextFrame("unknown", <<>>),
          BinaryFrame("audio", "audio/mpeg", 1)}

\* Metadata arrays of one and of two elements, with an element of a Type the
\* client does not know ("Xyz") at the front, at the back, or nowhere.
MetadataArrays ==
    LET known == {Element("WordBoundary", 0, 1), Element("SessionEnd", 0, 0)}
        other == Element("Xyz", 0, 0)
    IN  {<<e>> : e \in known \cup {other}}
        \cup {<<e, other>> : e \in known}
        \cup {<<other, e>> : e \in known}

\* The frames of a service that sends such arrays.
MetadataFrames ==
    {TextFrame("audio.metadata", a) : a \in MetadataArrays}
    \cup {TextFrame("turn.end", <<>>), BinaryFrame("audio", "audio/mpeg", 1)}

\* Offsets of a service whose audio is longer than 36 seconds (in ticks of
\* 100 ns), and the lengths of the text of its word boundaries.
LongOffsets == {0, 360000000}
TextLengths == {0, 1}

\* The frames of a service that sends such word boundaries.
WordFrames ==
    {TextFrame("audio.metadata", <<[Element("WordBoundary", o, 1) EXCEPT !.Text = t]>>) :
        o \in LongOffsets, t \in TextLengths}
    \cup {TextFrame("turn.end", <<>>), BinaryFrame("audio", "audio/mpeg", 1)}

----------------------------------------------------------------------------
(* WebSocketClient.parseMetadata and the body of streamChunk's loop.       *)

\* The ticks added between two chunks, websocket_client.ts 350.
ChunkGap == 8750000

NoRecord ==
    [type |-> "none", offset |-> 0, duration |-> 0, size |-> 0,
     chunk |-> 0, chan |-> 0, n |-> 0, dataOffset |-> 0, comp |-> 0, text |-> 0]

\* websocket_client.ts 275-280: the record made of a WordBoundary element.
WordBoundary(meta, comp) ==
    [NoRecord EXCEPT !.type = "WordBoundary", !.offset = meta.Offset + comp,
                     !.duration = meta.Duration, !.dataOffset = meta.Offset,
                     !.comp = comp, !.text = meta.Text]

\* websocket_client.ts 271-286: the first WordBoundary of the array, or an error.
RECURSIVE parseMetadata(_, _, _)
parseMetadata(metadata, i, comp) ==
    IF i > Len(metadata)
    THEN [ok |-> FALSE, err |-> UnexpectedResponse, rec |-> NoRecord]
    ELSE IF metadata[i].Type = "WordBoundary"
    THEN [ok |-> TRUE, err |-> PlainError, rec |-> WordBoundary(metadata[i], comp)]
    ELSE IF metadata[i].Type = "SessionEnd"
    THEN parseMetadata(metadata, i + 1, comp)
    ELSE [ok |-> FALSE, err |-> UnknownResponse, rec |-> NoRecord]

Outcome(act, rec, err) == [act |-> act, rec |-> rec, err |-> err]

\* websocket_client.ts 334-354: a text message.
OnTextMessage(m, comp) ==
    IF m.form # "ok" THEN Outcome("throw", NoRecord, UnexpectedResponse)
    ELSE IF m.path = "audio.metadata"
    THEN LET parsed == parseMetadata(m.meta, 1, comp)
         IN  IF parsed.ok THEN Outcome("yield", parsed.rec, PlainError)
             ELSE Outcome("throw", NoRecord, parsed.err)
    ELSE IF m.path = "turn.end" THEN Outcome("break", NoRecord, PlainError)
    ELSE IF m.path \notin {"response", "turn.start"}
    THEN Outcome("throw", NoRecord, UnknownResponse)
    ELSE Outcome("skip", NoRecord, PlainError)

\* websocket_client.ts 355-387: a binary message.
OnBinaryMessage(m) ==
    IF m.form # "ok" THEN Outcome("throw", NoRecord, UnexpectedResponse)
    ELSE IF m.path # "audio" THEN Outcome("throw", NoRecord, UnexpectedResponse)
    ELSE IF m.ctype \notin {"audio/mpeg", "absent"}
    THEN Outcome("throw", NoRecord, UnexpectedResponse)
    ELSE IF m.ctype = "absent" /\ m.body > 0
    THEN Outcome("throw", NoRecord, UnexpectedResponse)
    ELSE IF m.body = 0 /\ m.ctype # "absent"
    THEN Outcome("throw", NoRecord, UnexpectedResponse)
    ELSE Outcome("yield", [NoRecord EXCEPT !.type = "audio", !.size = m.body], PlainError)

\* websocket_client.ts 333-388: one iteration of the loop of streamChunk.
OnMessage(m, comp) ==
    IF m.bin THEN OnBinaryMessage(m) ELSE OnTextMessage(m, comp)

----------------------------------------------------------------------------
(* The transport.  A channel is one WebSocket object.                      *)

MaxChannels == 4
MaxFrames == 4
MaxQueue == 2
MaxCalls == 2

Conn(w, ch) == [ws |-> w, channels |-> ch]

\* WebSocket.close(): the socket is closed, whatever its state was.
Closed(ch, w) == [ch EXCEPT ![w].closeCalls = @ + 1, ![w].readyState = "CLOSED"]

\* A variant of disconnect that forgets to clear this.ws.
disconnectKeepsWs(conn) ==
    IF conn.ws # 0 THEN Conn(conn.ws, Closed(conn.channels, conn.ws)) ELSE conn

\* websocket_client.ts 196-205.
disconnect(conn) ==
    IF conn.ws # 0 THEN Conn(0, Closed(conn.channels, conn.ws)) ELSE conn

\* A variant of the connect operation that leaves the previous socket alone.
closeExistingSkipped(conn) == conn

\* websocket_client.ts 146-153: the connect operation closes a socket it still holds.
closeExisting(conn) ==
    IF conn.ws # 0 THEN Conn(0, Closed(conn.channels, conn.ws)) ELSE conn

\* websocket_client.ts 156-172: the connect operation creates the next socket.
newWebSocket(conn, chunk) ==
    Conn(Len(conn.channels) + 1,
         Append(conn.channels,
                [readyState |-> "CONNECTING", closeCalls |-> 0, chunk |-> chunk]))

\* WebSocket.send (foreign code) on a socket in the given state: it transmits
\* on an open socket; on a socket that never opened it throws, an error whose
\* status the source does not fix, or (closed socket) returns having sent nothing.
SendOutcomes(readyState) ==
    IF readyState = "OPEN" THEN {[throws |-> FALSE, err |-> PlainError]}
    ELSE {[throws |-> TRUE, err |-> SendError(st)] : st \in {0, 403}}
         \cup (IF readyState = "CLOSED"
               THEN {[throws |-> FALSE, err |-> PlainError]} ELSE {})

\* A variant of the queue discipline that takes the newest message first.
takeLast(q) == [message |-> q[Len(q)], rest |-> SubSeq(q, 1, Len(q) - 1)]

\* websocket_client.ts 315: messageQueue.shift().
shift(q) == [message |-> Head(q), rest |-> Tail(q)]

----------------------------------------------------------------------------
(* ReconnectManager, utils/reconnect.ts.                                   *)

\* websocket_client.ts 80-85 (and reconnect.ts 18-23): the default configuration.
DefaultReconnect ==
    [maxRetries |-> 3, initialDelay |-> 1000, maxDelay |-> 10000, backoffFactor |-> 2]

\* A variant of calculateDelay without the bound of maxDelay.
calculateDelayUnbounded(cfg, st) == st.currentDelay * cfg.backoffFactor

\* reconnect.ts 43-46.
calculateDelay(cfg, st) ==
    LET delay == st.currentDelay * cfg.backoffFactor
    IN  IF delay < cfg.maxDelay THEN delay ELSE cfg.maxDelay

----------------------------------------------------------------------------
(* Text frames: the builders of the outbound frames (utils/ssml.ts 57-64,  *)
(* websocket_client.ts 227-234) and the decoder of the inbound ones        *)
(* (helpers.ts 20-32 and 108-124).  A string is the sequence of its        *)
(* characters; CR and LF are the characters "\r" and "\n".                 *)

CRLFChars == <<"\r", "\n">>

\* helpers.ts 141.
DELIMITER == CRLFChars \o CRLFChars

\* Array.prototype.join.
RECURSIVE join(_, _)
join(pieces, sep) ==
    IF pieces = <<>> THEN <<>>
    ELSE IF Len(pieces) = 1 THEN pieces[1]
    ELSE pieces[1] \o sep \o join(Tail(pieces), sep)

\* ssml.ts 57-64: the header lines, an empty line and the body, joined.
HeaderLine(h) == h.key \o <<":">> \o h.value

BuildTextFrame(hs, content) ==
    join([i \in 1..Len(hs) |-> HeaderLine(hs[i])] \o <<<<>>, content>>, CRLFChars)

\* helpers.ts 20-32: the position of the first occurrence, from 0; -1 if none.
findPattern(data, pattern) ==
    LET hits == {i \in 0..(Len(data) - Len(pattern)) :
                    SubSeq(data, i + 1, i + Len(pattern)) = pattern}
    IN  IF hits = {} THEN -1 ELSE CHOOSE i \in hits : \A j \in hits : i <= j

\* String.prototype.split with a separator that is not empty.
RECURSIVE split(_, _)
split(str, sep) ==
    LET at == findPattern(str, sep)
    IN  IF at = -1 THEN <<str>>
        ELSE <<SubSeq(str, 1, at)>> \o split(SubSeq(str, at + Len(sep) + 1, Len(str)), sep)

\* String.prototype.trim.
WhiteSpace == {" ", "\r", "\n"}

RECURSIVE trim(_)
trim(str) ==
    IF str = <<>> THEN str
    ELSE IF str[1] \in WhiteSpace THEN trim(Tail(str))
    ELSE IF str[Len(str)] \in WhiteSpace THEN trim(SubSeq(str, 1, Len(str) - 1))
    ELSE str

\* helpers.ts 117-122: line.split(":", 2) keeps the first two pieces; a line
\* whose key or value is missing or empty sets no header.
RECURSIVE parseLines(_, _)
parseLines(lines, map) ==
    IF lines = <<>> THEN map
    ELSE LET parts == split(lines[1], <<":">>)
             set == Len(parts) >= 2 /\ parts[1] # <<>> /\ parts[2] # <<>>
             key == trim(parts[1])
         IN  parseLines(Tail(lines),
                        IF set
                        THEN [k \in DOMAIN map \cup {key} |->
                                 IF k = key THEN trim(parts[2]) ELSE map[k]]
                        ELSE map)

EmptyMap == [k \in {} |-> <<>>]

\* helpers.ts 108-124: the headers of the first headerLength characters, and
\* the data from headerLength + 2 on.
parseHeadersAndData(data, headerLength) ==
    [headers |-> parseLines(split(SubSeq(data, 1, headerLength), CRLFChars), EmptyMap),
     content |-> SubSeq(data, headerLength + 3, Len(data))]

NotDecoded == [done |-> FALSE, ok |-> FALSE, headers |-> EmptyMap, content |-> <<>>]

\* websocket_client.ts 335-341: the head of the text branch of streamChunk.
DecodeTextFrame(data) ==
    LET headerEnd == findPattern(data, DELIMITER)
    IN  IF headerEnd = -1 THEN [NotDecoded EXCEPT !.done = TRUE]
        ELSE LET p == parseHeadersAndData(data, headerEnd)
             IN  [done |-> TRUE, ok |-> TRUE, headers |-> p.headers,
                  content |-> p.content]

MaxHeaders == 2
MaxValueLen == 2
MaxBodyLen == 2

Strings(alphabet, n) == UNION {[1..k -> alphabet] : k \in 0..n}

\* The header maps of the codec model, as the builder is given them: one
\* line per key, the values with colons and blanks among their characters.
HeaderKeys == {<<"P">>, <<"Q">>}

HeaderLists ==
    {hs \in UNION {[1..k -> [key : HeaderKeys, value : Strings({"a", ":", " "}, MaxValueLen)]] :
                      k \in 1..MaxHeaders} :
        \A i, j \in DOMAIN hs : hs[i].key = hs[j].key => i = j}

Bodies == Strings({"b", "\r", "\n"}, MaxBodyLen)

\* The frame is built and handed to the channel.
BuildFrame ==
    /\ wire = <<>>
    /\ wire' = BuildTextFrame(frameHeaders, frameBody)
    /\ UNCHANGED <<splitVars, clientVars, runVars, envVars, seenVars, drmVars,
                   now, generated, deltas, service, frameHeaders, frameBody, decoded,
                   cancelled, subtitle>>

\* The frame arrives and is decoded.
OnTextFrame ==
    /\ wire # <<>>
    /\ ~decoded.done
    /\ decoded' = DecodeTextFrame(wire)
    /\ UNCHANGED <<splitVars, clientVars, runVars, envVars, seenVars, drmVars,
                   now, generated, deltas, service, frameHeaders, frameBody, wire,
                   cancelled, subtitle>>

\* No frame of the codec model exists, and the caller has not given up.
IdleCodec ==
    /\ cancelled = "no"
    /\ subtitle = "none"
    /\ frameHeaders = <<>>
    /\ frameBody = <<>>
    /\ wire = <<>>
    /\ decoded = NotDecoded

----------------------------------------------------------------------------
(* Frames of a service, given as the characters on the wire, and the       *)
(* record the loop of streamChunk works with: form, path, ctype and body   *)
(* are what websocket_client.ts 335-343 and 356-372 compute from them.     *)
(* wrote tells what the service wrote.  The two bytes of the length of a    *)
(* binary frame are the characters "hi" and "lo"; H is their value.        *)

PathKey == <<"P", "a", "t", "h">>
ContentTypeKey == <<"C", "o", "n", "t", "e", "n", "t", "-", "T", "y", "p", "e">>
RequestIdLine == [key |-> <<"X">>, value |-> <<"1">>]
AudioPath == <<"a", "u", "d", "i", "o">>
TurnEndPath == <<"t", "u", "r", "n", ".", "e", "n", "d">>
AudioMpeg == <<"a", "u", "d", "i", "o", "/", "m", "p", "e", "g">>

\* headers["Path"] and headers["Content-Type"], as the tokens of the records.
PathOf(headers) ==
    IF PathKey \notin DOMAIN headers THEN "absent"
    ELSE IF headers[PathKey] = AudioPath THEN "audio"
    ELSE IF headers[PathKey] = TurnEndPath THEN "turn.end"
    ELSE "unknown"

TypeOf(headers) ==
    IF ContentTypeKey \notin DOMAIN headers THEN "absent"
    ELSE IF headers[ContentTypeKey] = AudioMpeg THEN "audio/mpeg"
    ELSE "other"

NoHeader == [present |-> FALSE, value |-> <<>>]
Header(value) == [present |-> TRUE, value |-> value]

\* What the service wrote: the length of the frame, its header length, whether
\* it has the empty line, its Path and Content-Type, the length of its body.
Sent(length, H, delimited, path, ctype, body) ==
    [length |-> length, H |-> H, delimited |-> delimited, path |-> path,
     ctype |-> ctype, body |-> body]

\* websocket_client.ts 335-343: a text frame as the loop sees it.
FromText(data, wrote) ==
    LET d == DecodeTextFrame(data)
    IN  [bin |-> FALSE, form |-> IF d.ok THEN "ok" ELSE "no delimiter",
         path |-> PathOf(d.headers), ctype |-> "absent", body |-> 0,
         meta |-> <<>>, n |-> 0, wrote |-> wrote]

\* websocket_client.ts 356-372: a binary frame as the loop sees it.
FromBinary(view, headerLength, wrote) ==
    IF Len(view) < 2
    THEN [bin |-> TRUE, form |-> "too short", path |-> "absent", ctype |-> "absent",
          body |-> 0, meta |-> <<>>, n |-> 0, wrote |-> wrote]
    ELSE IF headerLength > Len(view)
    THEN [bin |-> TRUE, form |-> "header too long", path |-> "absent",
          ctype |-> "absent", body |-> 0, meta |-> <<>>, n |-> 0, wrote |-> wrote]
    ELSE LET p == parseHeadersAndData(view, headerLength)
         IN  [bin |-> TRUE, form |-> "ok", path |-> PathOf(p.headers),
              ctype |-> TypeOf(p.headers), body |-> Len(p.content),
              meta |-> <<>>, n |-> 0, wrote |-> wrote]

\* The header block of a binary audio frame: X-RequestId, Content-Type if the
\* service sets it, Path, each line ended by CRLF.
HeaderBlock(path, ctype) ==
    LET lines == <<RequestIdLine>>
                 \o (IF ctype.present THEN <<[key |-> ContentTypeKey, value |-> ctype.value]>>
                     ELSE <<>>)
                 \o <<[key |-> PathKey, value |-> path]>>
    IN  join([i \in 1..Len(lines) |-> HeaderLine(lines[i])], CRLFChars) \o CRLFChars

AudioHeaderBlock(ctype) == HeaderBlock(AudioPath, ctype)

\* A binary frame whose Path is not one the client knows.
OtherPath == <<"x">>

OtherPathFrame ==
    LET block == HeaderBlock(OtherPath, Header(AudioMpeg))
        view == <<"hi", "lo">> \o block \o <<"b">>
    IN  FromBinary(view, Len(block),
                   Sent(Len(view), Len(block), TRUE, OtherPath, Header(AudioMpeg), 1))

\* A binary audio frame: the length, the header block, the data.
AudioFrame(ctype, data) ==
    LET block == AudioHeaderBlock(ctype)
        view == <<"hi", "lo">> \o block \o data
    IN  FromBinary(view, Len(block),
                   Sent(Len(view), Len(block), TRUE, AudioPath, ctype, Len(data)))

\* The Content-Type values and the data of the audio frames of such a service.
ContentTypes ==
    {NoHeader, Header(AudioMpeg), Header(AudioMpeg \o <<":", "x">>), Header(<<"t">>)}
AudioData == {<<>>, <<"b">>}

\* The frames of a service that also sends frames that are not well formed:
\* audio frames of every Content-Type with and without data, a binary frame
\* of one byte, a binary frame whose header length is past its end, a text
\* frame without the empty line, a binary frame of another Path, and turn.end.
RawFrames ==
    {AudioFrame(c, d) : c \in ContentTypes, d \in AudioData}
    \cup {OtherPathFrame}
    \cup {FromBinary(<<"hi">>, 0, Sent(1, 0, FALSE, <<>>, NoHeader, 0)),
          FromBinary(<<"hi", "lo", "X">>, 4, Sent(3, 4, FALSE, <<>>, NoHeader, 0)),
          FromText(HeaderLine([key |-> PathKey, value |-> TurnEndPath]),
                   Sent(Len(PathKey) + 1 + Len(TurnEndPath), 0, FALSE, TurnEndPath,
                        NoHeader, 0)),
          FromText(BuildTextFrame(<<[key |-> PathKey, value |-> TurnEndPath]>>, <<>>),
                   Sent(Len(PathKey) + 1 + Len(TurnEndPath) + 4, 0, TRUE, TurnEndPath,
                        NoHeader, 0))}

\* The frames a service sends, by its kind.
FramesOf(kind) ==
    CASE kind = "metadata" -> MetadataFrames
      [] kind = "words" -> WordFrames
      [] kind = "raw" -> RawFrames
      [] OTHER -> ServiceFrames

----------------------------------------------------------------------------
(* DRM, utils/drm.ts.  A time in seconds is a record [s, ms]: the whole    *)
(* seconds and the milliseconds of the fraction.  A number of seconds past *)
(* 2^31 is a pair <<m, u>> that stands for m * 10^6 + u, 0 <= u < 10^6.    *)
(* A string is the sequence of its characters.                             *)

\* The Date header of a response that refused the client: absent, or a date
\* delta seconds ahead of the local clock.
NoDate == [present |-> FALSE, delta |-> 0]

ServerDates == {NoDate, [present |-> TRUE, delta |-> 600]}

\* drm.ts 6: 11644473600.
WIN_EPOCH == <<11644, 473600>>

\* drm.ts 64.
TRUSTED_CLIENT_TOKEN ==
    <<"6", "A", "5", "A", "A", "1", "D", "4", "E", "A", "F", "F", "4", "E", "9", "F",
      "B", "3", "7", "E", "2", "3", "D", "6", "8", "4", "9", "1", "D", "6", "F", "4">>

HexDigits ==
    <<"0", "1", "2", "3", "4", "5", "6", "7", "8", "9", "A", "B", "C", "D", "E", "F">>

\* drm.ts 72: charCodeAt(0) of a digit or of a letter A..F.
charCodeAt(c) ==
    LET k == CHOOSE i \in DOMAIN HexDigits : HexDigits[i] = c
    IN  IF k <= 10 THEN 47 + k ELSE 54 + k

\* drm.ts 18-20.
adjustClockSkewSeconds(skew, skewSeconds) == skew + skewSeconds

\* drm.ts 25-27.
getUnixTimestampUnskewed(wall, skew) == wall

getUnixTimestamp(wall, skew) == [s |-> wall.s + skew, ms |-> wall.ms]

\* drm.ts 55: ticks += WIN_EPOCH, for ticks >= 0.
AddSeconds(big, n) ==
    LET u == big[2] + (n % 1000000)
    IN  <<big[1] + (n \div 1000000) + (u \div 1000000), u % 1000000>>

\* drm.ts 58: the whole seconds of ticks % 300.
Mod300(big) == (big[1] * (1000000 % 300) + big[2]) % 300

\* drm.ts 58: ticks -= ticks % 300; the fraction goes with the remainder.
SubSeconds(big, r) ==
    IF big[2] >= r THEN <<big[1], big[2] - r>>
    ELSE <<big[1] - 1, big[2] + 1000000 - r>>

RECURSIVE Decimal(_)
Decimal(n) ==
    IF n < 10 THEN <<HexDigits[n + 1]>>
    ELSE Append(Decimal(n \div 10), HexDigits[(n % 10) + 1])

\* The six low digits of a pair.
Padded(u) == [k \in 1..6 |-> HexDigits[((u \div (10 ^ (6 - k))) % 10) + 1]]

\* drm.ts 61 and 67: ticks *= 1e9 / 100 appends seven zeros to the digits of
\* a whole number, and Math.floor leaves it as it is.
strToHash(big) ==
    Decimal(big[1]) \o Padded(big[2]) \o [k \in 1..7 |-> "0"] \o TRUSTED_CLIENT_TOKEN

\* drm.ts 72-80: 64 values of two hexadecimal digits each, in upper case.
hash(str) ==
    [k \in 1..128 |->
        LET i == (k - 1) \div 2
            idx == i % Len(str)
            val == (charCodeAt(str[idx + 1]) * (i + 1)) % 256
        IN  IF k % 2 = 1 THEN HexDigits[(val \div 16) + 1] ELSE HexDigits[(val % 16) + 1]]

\* drm.ts 50-81.
generateSecMsGec(wall, skew) ==
    LET unix == getUnixTimestamp(wall, skew)
        ticks == AddSeconds(WIN_EPOCH, unix.s)
        floored == SubSeconds(ticks, Mod300(ticks))
    IN  hash(strToHash(floored))

\* The clock values of the DRM model: either side of the window that starts
\* at 1699999800, and the next window.
WallClocks ==
    {[s |-> s, ms |-> ms] : s \in {1699999799, 1699999800, 1700000099, 1700000100},
                            ms \in {0, 999}}

Earlier(a, b) == a.s < b.s \/ (a.s = b.s /\ a.ms < b.ms)

\* The differences handed to adjustClockSkewSeconds.
Deltas == {-300, 1, 600}

MaxAdjust == 2
MaxGenerate == 2

\* Time passes.
Tick ==
    /\ \E t \in WallClocks : Earlier(now, t) /\ now' = t
    /\ UNCHANGED <<splitVars, clientVars, runVars, envVars, seenVars, drmVars,
                   generated, deltas, service, codecVars,
                   cancelled, subtitle>>

\* drm.ts 18-20.
AdjustClockSkewSeconds ==
    /\ Len(deltas) < MaxAdjust
    /\ \E d \in Deltas :
          /\ clockSkewSeconds' = adjustClockSkewSeconds(clockSkewSeconds, d)
          /\ deltas' = Append(deltas, d)
    /\ UNCHANGED <<splitVars, clientVars, runVars, envVars, seenVars, serverDate,
                   now, generated, service, codecVars,
                   cancelled, subtitle>>

\* drm.ts 50-81.
GenerateSecMsGec ==
    /\ Len(generated) < MaxGenerate
    /\ generated' = Append(generated,
                           [now |-> now, skew |-> clockSkewSeconds,
                            adjusted |-> Len(deltas),
                            token |-> generateSecMsGec(now, clockSkewSeconds)])
    /\ UNCHANGED <<splitVars, clientVars, runVars, envVars, seenVars, drmVars,
                   now, deltas, service, codecVars,
                   cancelled, subtitle>>

\* No call of DRM has been made; the clock of a job stands still.
IdleDRM ==
    /\ now \in {t \in WallClocks : \A u \in WallClocks : ~Earlier(u, t)}
    /\ generated = <<>>
    /\ deltas = <<>>

----------------------------------------------------------------------------
(* WebSocketClient.stream and the generators it drives.  An action runs    *)
(* from one suspension point of stream() to the next.                      *)

Running == [name |-> "none", status |-> 0]
Completed == [name |-> "ok", status |-> 0]
Returned == [name |-> "return", status |-> 0]

\* The variables the exits of a chunk decide.
ctl == <<recovering, rstate, rlog, pc, ws, channels, result, messageQueue, wsError,
         wsDone, audioReceived, pending>>

DropLocals ==
    /\ messageQueue' = <<>>
    /\ wsError' = FALSE
    /\ wsDone' = FALSE
    /\ audioReceived' = FALSE
    /\ pending' = NoRecord

\* execute has not returned.
\* What an execute has done: the invocations of the operation, its result,
\* the events handed to the handler (the last, and all in order) and the
\* delays it has waited.
NoResult ==
    [invoked |-> 0, returned |-> FALSE, success |-> FALSE, attempts |-> 0,
     event |-> "none", events |-> <<>>, waited |-> <<>>]

\* reconnect.ts 71-75, 91-96 and 108-113: the ReconnectResult execute returns.
ReconnectResult(log, success, attempts) ==
    [log EXCEPT !.returned = TRUE, !.success = success, !.attempts = attempts]

\* reconnect.ts 62-66, 77, 98 and 115-118: handler.onEvent is given an event.
\* A variant of the attempt event that numbers every attempt 1.
onEventFirst(log, type, attempt, delay) ==
    [log EXCEPT !.event = type,
                !.events = Append(@, [type |-> type, attempt |-> IF attempt > 0 THEN 1 ELSE 0,
                                      delay |-> delay])]

onEvent(log, type, attempt, delay) ==
    [log EXCEPT !.event = type,
                !.events = Append(@, [type |-> type, attempt |-> attempt, delay |-> delay])]

\* reconnect.ts 52-54: execute starts.
BeginConnect ==
    /\ rstate' = [attempts |-> 0, currentDelay |-> rconfig.initialDelay]
    /\ rlog' = NoResult
    /\ pc' = "execute"

\* websocket_client.ts 431-433: stream() leaves its outer try.
FinishOuter(res) ==
    LET c == disconnect(Conn(ws, channels))
    IN  /\ ws' = c.ws
        /\ channels' = c.channels
        /\ result' = res
        /\ pc' = "finished"
        /\ recovering' = FALSE
        /\ DropLocals
        /\ UNCHANGED <<rstate, rlog>>

\* A variant of the exit that records the error and goes on to the next text.
FinishInnerGoesOn(res) ==
    LET c == disconnect(Conn(ws, channels))
    IN  /\ ws' = c.ws
        /\ channels' = c.channels
        /\ result' = res
        /\ pc' = "texts"
        /\ recovering' = FALSE
        /\ DropLocals
        /\ UNCHANGED <<rstate, rlog>>

\* websocket_client.ts 427-433: stream() leaves its inner try, then the outer.
FinishInner(res) ==
    LET c == disconnect(disconnect(Conn(ws, channels)))
    IN  /\ ws' = c.ws
        /\ channels' = c.channels
        /\ result' = res
        /\ pc' = "finished"
        /\ recovering' = FALSE
        /\ DropLocals
        /\ UNCHANGED <<rstate, rlog>>

\* A variant of the catch block that reconnects on every 403.
ThrowRecovers(err) ==
    IF err.status = 403
    THEN /\ recovering' = TRUE
         /\ BeginConnect
         /\ DropLocals
         /\ UNCHANGED <<ws, channels, result>>
    ELSE FinishInner(err)

\* websocket_client.ts 413-426: streamChunk threw.  The catch block of the
\* first run reconnects on status 403; an error of the second run, raised
\* inside the catch block, leaves through the finally blocks.
Throw(err) ==
    IF err.status = 403 /\ ~recovering
    THEN /\ recovering' = TRUE
         /\ BeginConnect
         /\ DropLocals
         /\ UNCHANGED <<ws, channels, result>>
    ELSE FinishInner(err)

\* websocket_client.ts 427-430: streamChunk returned; on to the next text.
ChunkDone ==
    LET c == disconnect(Conn(ws, channels))
    IN  /\ ws' = c.ws
        /\ channels' = c.channels
        /\ pc' = "texts"
        /\ recovering' = FALSE
        /\ DropLocals
        /\ UNCHANGED <<rstate, rlog, result>>

\* A variant of the end of streamChunk without the check of line 390.
EndOfLoopUnchecked(audio) == ChunkDone

\* websocket_client.ts 390-392: after the loop of streamChunk.
EndOfLoop(audio) ==
    IF ~audio THEN Throw(NoAudioReceived) ELSE ChunkDone

\* A variant of stream() without the guard of lines 399-401.
StreamUnchecked ==
    /\ calls < MaxCalls
    /\ calls' = calls + 1
    /\ streamWasCalled' = TRUE
    /\ pc' = "texts"
    /\ UNCHANGED <<splitVars, config, partialText, offsetCompensation,
                   lastDurationOffset, ws, rconfig, rstate, rlog, recovering,
                   audioReceived, messageQueue, wsError, wsDone, pending, result,
                   envVars, sent, last, lastWord, serviceOrdered, monotone,
                   chunkAudio, rejected, drmVars, utilVars, cues, hooked>>

\* websocket_client.ts 398-402: a generator made by stream() is pulled for
\* the first time.
Stream ==
    /\ calls < MaxCalls
    /\ calls' = calls + 1
    /\ IF streamWasCalled
       THEN /\ rejected' = rejected + 1
            /\ UNCHANGED <<streamWasCalled, pc>>
       ELSE /\ streamWasCalled' = TRUE
            /\ pc' = "texts"
            /\ UNCHANGED rejected
    /\ UNCHANGED <<splitVars, config, partialText, offsetCompensation,
                   lastDurationOffset, ws, rconfig, rstate, rlog, recovering,
                   audioReceived, messageQueue, wsError, wsDone, pending, result,
                   envVars, sent, last, lastWord, serviceOrdered, monotone,
                   chunkAudio, drmVars, utilVars, cues, hooked>>

\* websocket_client.ts 405-407: the for-of loop pulls the next text.
NextText ==
    /\ pc = "texts"
    /\ IF gen = "run"
       THEN /\ SplitNext
            /\ IF chunks' # chunks
               THEN /\ partialText' = chunks'[Len(chunks')]
                    /\ BeginConnect
                    /\ UNCHANGED <<recovering, ws, channels, result, messageQueue,
                                   wsError, wsDone, audioReceived, pending>>
               ELSE IF gen' = "run"
               THEN UNCHANGED <<partialText, ctl>>
               ELSE /\ FinishOuter(IF gen' = "threw" THEN PlainError ELSE Completed)
                    /\ UNCHANGED partialText
       ELSE /\ FinishOuter(Completed)
            /\ UNCHANGED <<splitVars, partialText>>
    /\ chunkAudio' = FALSE
    /\ UNCHANGED <<config, offsetCompensation, lastDurationOffset, streamWasCalled,
                   rconfig, arrived, sent, last, lastWord, serviceOrdered, monotone,
                   calls, rejected, drmVars, utilVars, cues, hooked>>

\* reconnect.ts 56-68 and websocket_client.ts 144-172: the head of the loop of
\* execute; an attempt closes the socket still held and creates the next.
Execute ==
    /\ pc = "execute"
    /\ IF rstate.attempts < rconfig.maxRetries
       THEN /\ Len(channels) < MaxChannels
            /\ LET c == newWebSocket(closeExisting(Conn(ws, channels)), Len(chunks))
               IN  /\ ws' = c.ws
                   /\ channels' = c.channels
            /\ sent' = <<>>
            /\ rlog' = onEvent([rlog EXCEPT !.invoked = @ + 1], "attempt",
                             rstate.attempts + 1, rstate.currentDelay)
            /\ pc' = "opening"
       ELSE /\ pc' = "send"
            /\ rlog' = onEvent(ReconnectResult(rlog, FALSE, rstate.attempts), "abort", 0, 0)
            /\ UNCHANGED <<ws, channels, sent>>
    \* websocket_client.ts 419-420: the refusal was handed to DRM before connect()
    /\ serverDate' = NoDate
    /\ UNCHANGED <<splitVars, config, partialText, offsetCompensation,
                   lastDurationOffset, streamWasCalled, rconfig, rstate, recovering,
                   audioReceived, messageQueue, wsError, wsDone, pending, result,
                   arrived, last, lastWord, serviceOrdered, monotone, chunkAudio,
                   calls, rejected, clockSkewSeconds, utilVars, cues, hooked>>

\* A variant of the catch block that forgets to count the failed attempt.
AttemptFailedUncounted ==
    /\ pc' = "waiting"
    /\ UNCHANGED <<rstate, rlog>>

\* reconnect.ts 81-105: an attempt failed.
AttemptFailed ==
    LET n == rstate.attempts + 1
    IN  /\ rstate' = [rstate EXCEPT !.attempts = n]
        /\ rlog' = IF n >= rconfig.maxRetries
                   THEN onEvent(ReconnectResult(rlog, FALSE, n), "failure", 0, 0) ELSE rlog
        /\ pc' = IF n >= rconfig.maxRetries THEN "send" ELSE "waiting"

\* websocket_client.ts 180-183 and reconnect.ts 70-79: the socket opened.
OnOpen ==
    /\ pc = "opening"
    /\ channels' = [channels EXCEPT ![ws].readyState = "OPEN"]
    /\ rlog' = onEvent(ReconnectResult(rlog, TRUE, rstate.attempts + 1), "success", 0, 0)
    /\ pc' = "send"
    /\ UNCHANGED <<splitVars, config, partialText, offsetCompensation,
                   lastDurationOffset, streamWasCalled, ws, rconfig, rstate,
                   recovering, audioReceived, messageQueue, wsError, wsDone,
                   pending, result, arrived, seenVars, drmVars, utilVars>>

\* websocket_client.ts 185-188: the socket failed to open.
OnOpenError ==
    /\ pc = "opening"
    /\ channels' = [channels EXCEPT ![ws].readyState = "CLOSED"]
    /\ AttemptFailed
    /\ UNCHANGED <<splitVars, config, partialText, offsetCompensation,
                   lastDurationOffset, streamWasCalled, ws, rconfig,
                   recovering, audioReceived, messageQueue, wsError, wsDone,
                   pending, result, arrived, seenVars, drmVars, utilVars>>

\* websocket_client.ts 176-178: the connect timeout fired; the socket is left as it is.
ConnectTimeout ==
    /\ pc = "opening"
    /\ AttemptFailed
    /\ UNCHANGED <<splitVars, config, partialText, offsetCompensation,
                   lastDurationOffset, streamWasCalled, ws, rconfig,
                   recovering, audioReceived, messageQueue, wsError, wsDone,
                   pending, result, envVars, seenVars, drmVars, utilVars>>

\* reconnect.ts 103-104: the delay before the next attempt has passed.
RetryDelay ==
    /\ pc = "waiting"
    /\ rstate' = [rstate EXCEPT !.currentDelay = calculateDelay(rconfig, rstate)]
    /\ rlog' = [rlog EXCEPT !.waited = Append(@, rstate.currentDelay)]
    /\ pc' = "execute"
    /\ UNCHANGED <<splitVars, config, partialText, offsetCompensation,
                   lastDurationOffset, streamWasCalled, ws, rconfig,
                   recovering, audioReceived, messageQueue, wsError, wsDone,
                   pending, result, envVars, seenVars, drmVars, utilVars>>

\* websocket_client.ts 213-234: the length of the speech.config message.
ConfigCommandSize ==
    (Len("X-Timestamp:") + DateStringLen) + CRLF
    + Len("Content-Type:application/json; charset=utf-8") + CRLF
    + Len("Path:speech.config") + CRLF
    + 0 + CRLF
    + Len("{\"context\":{\"synthesis\":{\"audio\":{\"metadataoptions\":{")
    + Len("\"sentenceBoundaryEnabled\":false,\"wordBoundaryEnabled\":true},")
    + Len("\"outputFormat\":\"audio-24khz-48kbitrate-mono-mp3\"}}}}") + CRLF
    + 0

Message(path, size) == [path |-> path, size |-> size]

\* drm.ts 87-94: for a 403 handleClientResponseError returns having done
\* nothing (the skew is left as it is); any other error it throws again.
handleClientResponseError(err, date, skew) ==
    [throws |-> err.status # 403, skew |-> skew]

\* websocket_client.ts 414-419: the catch block hands a 403 of the first run
\* to DRM before it reconnects.
Intercept(err) ==
    IF err.status = 403 /\ ~recovering
    THEN \E date \in ServerDates :
            /\ serverDate' = date
            /\ clockSkewSeconds' =
                  handleClientResponseError(err, date, clockSkewSeconds).skew
    ELSE UNCHANGED drmVars

\* A variant of streamChunk that sends the SSML request of a chunk twice.
SendTwice ==
    /\ pc = "send"
    /\ IF ws = 0
       THEN /\ Throw(WebSocketError)
            /\ UNCHANGED <<sent, drmVars>>
       ELSE \E o1, o2 \in SendOutcomes(channels[ws].readyState) :
              IF o1.throws
              THEN /\ Throw(o1.err)
                   /\ Intercept(o1.err)
                   /\ UNCHANGED sent
              ELSE IF o2.throws
              THEN /\ Throw(o2.err)
                   /\ Intercept(o2.err)
                   /\ sent' = Append(sent, Message("speech.config", ConfigCommandSize))
              ELSE /\ sent' = sent \o
                        <<Message("speech.config", ConfigCommandSize),
                          Message("ssml", SSMLRequestSize(config, partialText)),
                          Message("ssml", SSMLRequestSize(config, partialText))>>
                   /\ pc' = "recv"
                   /\ DropLocals
                   /\ UNCHANGED <<recovering, rstate, rlog, ws, channels, result,
                                  drmVars>>
    /\ UNCHANGED <<splitVars, config, partialText, offsetCompensation,
                   lastDurationOffset, streamWasCalled, rconfig, arrived, last,
                   lastWord, serviceOrdered, monotone, chunkAudio, calls, rejected,
                   utilVars, cues, hooked>>

\* websocket_client.ts 327-333 with 210-253 and 291-310: streamChunk starts,
\* sends the two requests and installs the handlers of streamWebSocket.
Send ==
    /\ pc = "send"
    /\ IF ws = 0
       THEN /\ Throw(WebSocketError)
            /\ UNCHANGED <<sent, drmVars>>
       ELSE \E o1, o2 \in SendOutcomes(channels[ws].readyState) :
              IF o1.throws
              THEN /\ Throw(o1.err)
                   /\ Intercept(o1.err)
                   /\ UNCHANGED sent
              ELSE IF o2.throws
              THEN /\ Throw(o2.err)
                   /\ Intercept(o2.err)
                   /\ sent' = Append(sent, Message("speech.config", ConfigCommandSize))
              ELSE /\ sent' = sent \o
                        <<Message("speech.config", ConfigCommandSize),
                          Message("ssml", SSMLRequestSize(config, partialText))>>
                   /\ pc' = "recv"
                   /\ DropLocals
                   /\ UNCHANGED <<recovering, rstate, rlog, ws, channels, result,
                                  drmVars>>
    /\ UNCHANGED <<splitVars, config, partialText, offsetCompensation,
                   lastDurationOffset, streamWasCalled, rconfig, arrived, last,
                   lastWord, serviceOrdered, monotone, chunkAudio, calls, rejected,
                   utilVars, cues, hooked>>

\* What the consumer has been given.
seen == <<last, lastWord, serviceOrdered, monotone, chunkAudio, cues, hooked>>

\* part_004 73-79: the default subtitle configuration.
DEFAULT_SUBTITLE_CONFIG ==
    [wordsPerCue |-> 10, minDuration |-> 1000, maxDuration |-> 5000, timeOffset |-> 0]

Min(a, b) == IF a < b THEN a ELSE b

Max(a, b) == IF a > b THEN a ELSE b

\* reconnect.ts 215-235 (BaseSubtitleGenerator.addCue): currentIndex is one
\* more than the number of cues, reset() being called nowhere.
addCue(cs, txt, timestamp, cfg) ==
    LET duration == Min(Max(timestamp.duration, cfg.minDuration), cfg.maxDuration)
    IN  Append(cs, [index |-> Len(cs) + 1,
                    timestamp |-> [start |-> timestamp.start + cfg.timeOffset,
                                   duration |-> duration,
                                   end |-> timestamp.start + duration + cfg.timeOffset],
                    text |-> txt])

\* websocket_client.ts 258-266.
handleWordBoundary(metadata) ==
    IF subtitle # "none" /\ metadata.text # 0
    THEN /\ hooked' = Append(hooked, [text |-> metadata.text, start |-> metadata.offset,
                                      duration |-> metadata.duration])
         /\ cues' = addCue(cues, metadata.text,
                           [start |-> metadata.offset, duration |-> metadata.duration,
                            end |-> metadata.offset + metadata.duration],
                           DEFAULT_SUBTITLE_CONFIG)
    ELSE UNCHANGED <<cues, hooked>>

\* websocket_client.ts 345-347, 386 and 411: a record is yielded to the
\* consumer, a word boundary after the subtitle generator was given it.
Deliver(rec) ==
    /\ pending' = rec
    /\ IF rec.type = "WordBoundary" THEN handleWordBoundary(rec)
       ELSE UNCHANGED <<cues, hooked>>
    /\ last' = rec
    /\ IF rec.type = "WordBoundary"
       THEN /\ lastWord' = rec
            /\ monotone' = (monotone /\ (lastWord.type = "none"
                                          \/ lastWord.offset <= rec.offset))
            /\ serviceOrdered' = (serviceOrdered
                                  /\ (lastWord.type = "none" \/ lastWord.chan # rec.chan
                                      \/ lastWord.dataOffset <= rec.dataOffset))
            /\ UNCHANGED chunkAudio
       ELSE /\ chunkAudio' = TRUE
            /\ UNCHANGED <<lastWord, monotone, serviceOrdered>>

\* websocket_client.ts 313-321 and 333-392: the loop of streamWebSocket looks
\* at done and error first, then at the queue; streamChunk handles the message.
Recv ==
    /\ pc = "recv"
    /\ IF wsDone \/ wsError
       THEN /\ IF wsError THEN Throw(WebSocketError) ELSE EndOfLoop(audioReceived)
            /\ UNCHANGED <<offsetCompensation, lastDurationOffset, seen>>
       ELSE /\ messageQueue # <<>>
            /\ LET taken == shift(messageQueue)
                   m == taken.message
                   o == OnMessage(m, offsetCompensation)
               IN  CASE o.act = "yield" ->
                          /\ Deliver([o.rec EXCEPT !.chunk = Len(chunks), !.chan = ws,
                                                   !.n = m.n])
                          /\ audioReceived' = (audioReceived \/ m.bin)
                          /\ messageQueue' = taken.rest
                          /\ pc' = "yield"
                          /\ UNCHANGED <<recovering, rstate, rlog, ws, channels, result,
                                         wsError, wsDone, offsetCompensation,
                                         lastDurationOffset>>
                     [] o.act = "skip" ->
                          /\ messageQueue' = taken.rest
                          /\ UNCHANGED <<recovering, rstate, rlog, pc, ws, channels, result,
                                         wsError, wsDone, audioReceived, pending,
                                         offsetCompensation, lastDurationOffset, seen>>
                     [] o.act = "break" ->
                          /\ offsetCompensation' = lastDurationOffset + ChunkGap
                          /\ EndOfLoop(audioReceived)
                          /\ UNCHANGED <<lastDurationOffset, seen>>
                     [] o.act = "throw" ->
                          /\ Throw(o.err)
                          /\ UNCHANGED <<offsetCompensation, lastDurationOffset, seen>>
    /\ UNCHANGED <<splitVars, config, partialText, streamWasCalled, rconfig,
                   arrived, sent, calls, rejected, drmVars, utilVars>>

\* websocket_client.ts 348 and 411: the consumer pulls again; streamChunk
\* resumes after its yield.
Pull ==
    /\ pc = "yield"
    /\ lastDurationOffset' =
          IF pending.type = "WordBoundary" THEN pending.offset + pending.duration
          ELSE lastDurationOffset
    /\ pending' = NoRecord
    /\ pc' = "recv"
    /\ UNCHANGED <<splitVars, config, partialText, offsetCompensation,
                   streamWasCalled, ws, rconfig, rstate, rlog, recovering, audioReceived,
                   messageQueue, wsError, wsDone, result, envVars, seenVars, drmVars, utilVars>>

\* websocket_client.ts 427-433: the consumer stops (return() on the generator).
Return ==
    /\ pc = "yield"
    /\ FinishInner(Returned)
    /\ UNCHANGED <<splitVars, config, partialText, offsetCompensation,
                   lastDurationOffset, streamWasCalled, rconfig, arrived, seenVars, drmVars, utilVars>>

\* The handlers of streamWebSocket are installed on the open socket.  An event
\* that fires while the consumer holds a record is seen by stream() only when
\* it resumes: it is delivered then.
Listening == pc = "recv" /\ ws # 0 /\ channels[ws].readyState = "OPEN"

\* websocket_client.ts 300-302: onmessage.
OnMessageEvent ==
    /\ Listening
    /\ arrived < MaxFrames
    /\ Len(messageQueue) < MaxQueue
    /\ \E f \in FramesOf(service) :
          messageQueue' = Append(messageQueue, [f EXCEPT !.n = arrived + 1])
    /\ arrived' = arrived + 1
    /\ UNCHANGED <<splitVars, clientVars, pc, recovering, audioReceived, wsError,
                   wsDone, pending, result, channels, seenVars, drmVars, utilVars>>

\* websocket_client.ts 308-310: onclose.
OnClose ==
    /\ Listening
    /\ channels' = [channels EXCEPT ![ws].readyState = "CLOSED"]
    /\ wsDone' = TRUE
    /\ UNCHANGED <<splitVars, clientVars, pc, recovering, audioReceived,
                   messageQueue, wsError, pending, result, arrived, seenVars, drmVars, utilVars>>

\* websocket_client.ts 304-306: onerror.
OnError ==
    /\ Listening
    /\ channels' = [channels EXCEPT ![ws].readyState = "CLOSED"]
    /\ wsError' = TRUE
    /\ UNCHANGED <<splitVars, clientVars, pc, recovering, audioReceived,
                   messageQueue, wsDone, pending, result, arrived, seenVars, drmVars, utilVars>>

----------------------------------------------------------------------------
(* The job: websocket_client.ts 64-111, the constructor.                   *)

\* The empty text and a text of two bytes.
JobTexts == {<<>>, <<AMP, LETTER>>}

\* The default voice, and voices that leave a budget of 0 or of 1 byte.
JobConfigs == {DefaultConfig, ConfigOfBudget(0), ConfigOfBudget(1)}

\* reconnect.ts 16-31: the constructor of ReconnectManager.
InitReconnect(cfg) ==
    /\ rconfig = cfg
    /\ rstate = [attempts |-> 0, currentDelay |-> cfg.initialDelay]
    /\ rlog = NoResult

\* websocket_client.ts 59-62 and 98-103: the fields apart from the manager.
InitState ==
    /\ partialText = <<>>
    /\ offsetCompensation = 0
    /\ lastDurationOffset = 0
    /\ streamWasCalled = FALSE
    /\ ws = 0
    /\ pc = "idle"
    /\ recovering = FALSE
    /\ audioReceived = FALSE
    /\ messageQueue = <<>>
    /\ wsError = FALSE
    /\ wsDone = FALSE
    /\ pending = NoRecord
    /\ result = Running
    /\ channels = <<>>
    /\ arrived = 0
    /\ sent = <<>>
    /\ last = NoRecord
    /\ lastWord = NoRecord
    /\ serviceOrdered = TRUE
    /\ monotone = TRUE
    /\ chunkAudio = FALSE
    /\ calls = 0
    /\ rejected = 0
    /\ clockSkewSeconds = 0
    /\ serverDate = NoDate
    /\ cues = <<>>
    /\ hooked = <<>>

InitClient == InitReconnect(DefaultReconnect) /\ InitState

Init ==
    /\ config \in JobConfigs
    /\ input \in JobTexts
    /\ text = input
    /\ byteLength = calculateMaxMessageSize(config)
    /\ gen = "run"
    /\ chunks = <<>>
    /\ InitClient
    /\ IdleDRM
    /\ service = "turn"
    /\ IdleCodec

Next ==
    \/ Stream
    \/ NextText
    \/ Execute
    \/ OnOpen
    \/ OnOpenError
    \/ ConnectTimeout
    \/ RetryDelay
    \/ Send
    \/ Recv
    \/ Pull
    \/ Return
    \/ OnMessageEvent
    \/ OnClose
    \/ OnError

Spec == Init /\ [][Next]_vars

\* The steps stream() takes by itself once it can, the timers it has set
\* (websocket_client.ts 176-178, reconnect.ts 103), and the consumer's pulls.
\* The service is free to stay silent: its events are not among them.
Progress ==
    \/ NextText
    \/ Execute
    \/ ConnectTimeout
    \/ RetryDelay
    \/ Send
    \/ Recv
    \/ Pull
    \/ Return

SpecLive == Init /\ [][Next]_vars /\ WF_vars(Progress)

----------------------------------------------------------------------------
(* connect() alone, under every reconnect configuration within the bounds: *)
(* the job up to the return of execute.                                    *)

MaxRetries == 3

\* reconnect.ts 28-32: the configuration given to the constructor.
ReconnectConfigs ==
    {[maxRetries |-> n, initialDelay |-> d, maxDelay |-> 10000, backoffFactor |-> f] :
        n \in 0..MaxRetries, d \in {1000, 20000}, f \in {1, 2}}

InitConnect ==
    /\ config = DefaultConfig
    /\ input \in JobTexts
    /\ text = input
    /\ byteLength = calculateMaxMessageSize(config)
    /\ gen = "run"
    /\ chunks = <<>>
    /\ \E cfg \in ReconnectConfigs : InitReconnect(cfg)
    /\ InitState
    /\ IdleDRM
    /\ service = "turn"
    /\ IdleCodec

NextConnect ==
    \/ Stream
    \/ NextText
    \/ Execute
    \/ OnOpen
    \/ OnOpenError
    \/ ConnectTimeout
    \/ RetryDelay

SpecConnect == InitConnect /\ [][NextConnect]_vars

----------------------------------------------------------------------------
(* The job with two attempts per connect, so that a connect can fail, the  *)
(* 403 recovery can start and its connect can fail again, within           *)
(* MaxChannels sockets.                                                    *)

TwoAttempts == [DefaultReconnect EXCEPT !.maxRetries = 2]

InitRecover ==
    /\ config \in JobConfigs
    /\ input \in JobTexts
    /\ text = input
    /\ byteLength = calculateMaxMessageSize(config)
    /\ gen = "run"
    /\ chunks = <<>>
    /\ InitReconnect(TwoAttempts)
    /\ InitState
    /\ IdleDRM
    /\ service = "turn"
    /\ IdleCodec

SpecRecover == InitRecover /\ [][Next]_vars

----------------------------------------------------------------------------
(* The chunker alone, on every text and budget within the bounds.          *)

Iterate == SplitNext /\ UNCHANGED jobVars

InitSplit ==
    /\ input \in Texts
    /\ text = input
    /\ byteLength \in 0..MaxByteLength
    /\ gen = "run"
    /\ chunks = <<>>
    /\ config = DefaultConfig
    /\ InitClient
    /\ IdleDRM
    /\ service = "turn"
    /\ IdleCodec

SpecSplit == InitSplit /\ [][Iterate]_vars /\ WF_vars(Iterate)

----------------------------------------------------------------------------
(* Properties of the chunker, checked under SpecSplit.                     *)

RECURSIVE Concat(_)
Concat(seqs) == IF seqs = <<>> THEN <<>> ELSE Head(seqs) \o Concat(Tail(seqs))

\* The positions in the input after which a chunk ended and more bytes follow.
Boundaries ==
    {Len(Concat(SubSeq(chunks, 1, k))) : k \in 1..Len(chunks)} \ {Len(input)}

\* An entity of at most `most` bytes, '&' then letters then ';', has its '&'
\* among the first p bytes of t and its ';' after them.
InsideEntity(t, p, most) ==
    \E a \in 1..p, s \in (p + 1)..Len(t) :
        /\ t[a] = AMP
        /\ t[s] = SEMI
        /\ s > a + 1
        /\ s - a + 1 <= most
        /\ \A k \in (a + 1)..(s - 1) : t[k] = LETTER

\* C3: for every input and every budget B > 0 the chunker terminates, and
\* its chunks are non-empty, at most B bytes long, and concatenate in order
\* to exactly the input.
ChunksCoverInput ==
    /\ [](byteLength > 0 =>
            /\ \A i \in 1..Len(chunks) : Len(chunks[i]) \in 1..byteLength
            /\ Concat(chunks) \o text = input)
    /\ <>(byteLength > 0 => gen = "done" /\ Concat(chunks) = input)

\* A text longer than the budget has been split into several chunks, the
\* last of them cut without a space to split at.
ChunksCoverInputWitness ==
    /\ gen = "done"
    /\ byteLength > 1
    /\ Len(chunks) >= 2
    /\ \A i \in 1..Len(input) : input[i] # SPACE

\* C5: no chunk boundary falls strictly inside an entity, between its '&'
\* and the ';' that ends it (stated for the entities that fit the budget,
\* those a chunker is able to keep whole).
NoEntityCut ==
    byteLength > 0 =>
        \A p \in Boundaries : ~InsideEntity(input, p, byteLength)

----------------------------------------------------------------------------
(* Properties of the job, checked under Spec.                              *)

\* C1: in a job that completes without error the offsets of the word-boundary
\* records never decrease over the whole output, provided the service's
\* offsets never decrease within a channel (its durations are never negative).
OffsetsNonDecreasing ==
    (result = Completed /\ serviceOrdered) => monotone

\* The step processes a turn.end message.
TurnEndStep ==
    /\ pc = "recv"
    /\ ~(wsDone \/ wsError)
    /\ messageQueue # <<>>
    /\ Head(messageQueue).path = "turn.end"

\* C2: a word-boundary record's offset is Data.Offset plus the compensation
\* in force; the compensation is 0 during the first chunk and changes only
\* when a turn.end is processed, to lastDurationOffset + 8,750,000; so the
\* first word boundary of chunk 2 is offset by the end of the last word
\* boundary of chunk 1 plus 8,750,000.
OffsetCompensated ==
    [][/\ lastWord' # lastWord =>
            /\ lastWord'.offset = lastWord'.dataOffset + offsetCompensation
            /\ lastWord'.chunk = 1 => offsetCompensation = 0
       /\ offsetCompensation' # offsetCompensation =>
            /\ TurnEndStep
            /\ offsetCompensation' = lastDurationOffset + ChunkGap
       /\ (lastWord' # lastWord /\ lastWord.chunk = 1 /\ lastWord'.chunk = 2) =>
            lastWord'.offset =
                lastWord'.dataOffset + (lastWord.offset + lastWord.duration) + ChunkGap
      ]_vars

\* C4: every markup message handed to the socket is at most 65,536 - 50
\* bytes long, whatever characters the chunk is made of.
MarkupWithinLimit ==
    \A i \in 1..Len(sent) :
        sent[i].path = "ssml" => sent[i].size <= WEBSOCKET_MAX_SIZE - ErrorMargin

\* C6: when stream() has finished, by completion, by an error or by the
\* consumer stopping, every socket created (those of failed attempts too) has
\* had close() called exactly once, and a further disconnect changes nothing.
ChannelsClosedOnce ==
    pc = "finished" =>
        /\ \A i \in 1..Len(channels) :
              channels[i].closeCalls = 1 /\ channels[i].readyState = "CLOSED"
        /\ disconnect(Conn(ws, channels)) = Conn(ws, channels)

\* The consumer stopped during the second chunk of a job that made three
\* sockets (one attempt to open failed).
ChannelsClosedOnceWitness ==
    /\ pc = "finished"
    /\ result = Returned
    /\ Len(chunks) = 2
    /\ Len(channels) = 3

\* C7: at most one channel is open at any moment: every socket but the
\* newest is closed, so a socket is created (for the next chunk, for the next
\* attempt, for the reopen after a 403) only after the previous one is closed.
OneChannelAtATime ==
    \A i \in 1..Len(channels) :
        channels[i].readyState # "CLOSED" => i = Len(channels)

\* The socket of the reopen after a 403 is open, after three attempts that
\* failed.
OneChannelAtATimeWitness ==
    /\ recovering
    /\ Len(channels) = 4
    /\ channels[4].readyState = "OPEN"

\* C8: records are delivered chunk by chunk, and within a chunk in the order
\* in which their frames arrived.
RecordsInArrivalOrder ==
    [][last' # last =>
          /\ last'.chunk = Len(chunks)
          /\ last'.chunk >= last.chunk
          /\ last'.n > last.n
      ]_vars

\* A record of the second chunk has been delivered after a record of the
\* first, while a later frame waits in the queue.
RecordsInArrivalOrderWitness ==
    /\ last.type = "audio"
    /\ last.chunk = 2
    /\ lastWord.chunk = 1
    /\ messageQueue # <<>>

\* The chunk ends now (turn.end is next, or the socket has closed) and no
\* audio record has been delivered for it.
EndsWithoutAudio ==
    /\ pc = "recv"
    /\ ~wsError
    /\ wsDone \/ (messageQueue # <<>> /\ Head(messageQueue).path = "turn.end")
    /\ ~chunkAudio

\* C9: a chunk finishes successfully only after an audio record was
\* delivered for it; a chunk that ends without one fails the job with
\* NoAudioReceived, and no later chunk is started.
AudioOrFailure ==
    [][/\ (pc = "recv" /\ pc' = "texts") => chunkAudio
       /\ (EndsWithoutAudio /\ pc' # pc) =>
             (pc' = "finished" /\ result' = NoAudioReceived)
       /\ result = NoAudioReceived => UNCHANGED <<chunks, channels, last>>
      ]_vars

\* The first of two chunks ended without audio: the job has failed and the
\* second chunk was never started.
AudioOrFailureWitness ==
    /\ pc = "finished"
    /\ result = NoAudioReceived
    /\ Len(chunks) = 1
    /\ text # <<>>

\* C10: the first invocation of stream() marks the job consumed; every later
\* invocation throws, and creates no socket, sends nothing, delivers nothing
\* and leaves offsetCompensation alone.
StreamOnlyOnce ==
    [][calls' # calls =>
          /\ streamWasCalled'
          /\ streamWasCalled =>
                /\ rejected' = rejected + 1
                /\ UNCHANGED <<pc, ws, channels, sent, last, pending,
                               offsetCompensation, lastDurationOffset>>
      ]_vars

\* A second invocation was rejected while the first was streaming records.
StreamOnlyOnceWitness ==
    /\ rejected = 1
    /\ pc = "yield"
    /\ last.type = "WordBoundary"

\* stream() has thrown: its result is an error.
Failed(res) == res \notin {Running, Completed, Returned}

\* C11: an error that is not intercepted for the 403 recovery surfaces once,
\* while the consumer waits for a record; no socket is created for it, the
\* records delivered before stay as they are, and afterwards the stream is
\* finished: no record is delivered and no socket is created any more.
ErrorEndsStream ==
    [][/\ (result = Running /\ Failed(result')) =>
            /\ pc # "yield"
            /\ pc' = "finished"
            /\ Len(channels') = Len(channels)
            /\ UNCHANGED <<last, lastWord, chunks>>
       /\ result # Running =>
            /\ result' = result
            /\ pc' = "finished"
            /\ Len(channels') = Len(channels)
            /\ UNCHANGED <<last, lastWord, chunks, sent>>
      ]_vars

\* The first of two chunks failed on an unknown frame after an audio record
\* had been delivered; the second chunk was never started.
ErrorEndsStreamWitness ==
    /\ pc = "finished"
    /\ result = UnknownResponse
    /\ last.type = "audio"
    /\ Len(chunks) = 1
    /\ text # <<>>

\* C12: when the socket is closed before the turn.end of the current chunk
\* has been processed, stream() fails with WebSocketError; the chunk is never
\* taken as complete.
CloseBeforeTurnEndFails ==
    [][(pc = "recv" /\ wsDone /\ pc' # pc) =>
          (pc' = "finished" /\ result' = WebSocketError)
      ]_vars

\* C13: stream() never waits forever for the service: when nothing arrives
\* on the open socket, the receive timeout ends the wait and the job fails.
ReceiveTimesOut ==
    [](pc = "recv" => <>(pc # "recv"))

\* execute has returned after maxRetries attempts that all failed.
AllAttemptsFailed ==
    /\ pc = "send"
    /\ rconfig.maxRetries >= 1
    /\ rstate.attempts = rconfig.maxRetries

\* C14: when every attempt to open the channel of a chunk fails, stream()
\* fails with WebSocketError after exactly maxRetries attempts, and no
\* record is delivered for that chunk.
OpenFailureSurfaces ==
    [][(AllAttemptsFailed /\ pc' # pc) =>
          /\ pc' = "finished"
          /\ result' = WebSocketError
          /\ last' = last
      ]_vars

----------------------------------------------------------------------------
(* Properties of connect(), checked under SpecConnect.                     *)

\* C15: with maxRetries >= 1 execute invokes the operation until it first
\* succeeds or until maxRetries invocations have failed, never more often;
\* it returns success with attempts = the number of invocations made, or
\* failure with attempts = maxRetries.
ExecuteCounts ==
    rconfig.maxRetries >= 1 =>
        /\ rlog.invoked <= rconfig.maxRetries
        /\ (pc = "waiting" \/ (pc = "execute" /\ rlog.invoked > 0)) =>
              (~rlog.returned /\ rlog.invoked = rstate.attempts)
        /\ rlog.returned =>
              IF rlog.success
              THEN /\ rlog.attempts = rlog.invoked
                   /\ pc = "send" => channels[ws].readyState = "OPEN"
              ELSE /\ rlog.attempts = rconfig.maxRetries
                   /\ rlog.invoked = rconfig.maxRetries
                   /\ rstate.attempts = rconfig.maxRetries

\* execute returned success at its second invocation.
ExecuteCountsWitness ==
    /\ rconfig.maxRetries = 2
    /\ rlog.returned
    /\ rlog.success
    /\ rlog.invoked = 2

----------------------------------------------------------------------------
(* Properties of the 403 recovery, checked under SpecRecover.              *)

\* stream() is inside streamChunk.
InChunk == pc \in {"send", "recv", "yield"}

\* C16: for each chunk a 403 is intercepted at most once: connect() is
\* called once from the catch block and the same chunk is run again; an
\* error of that second run, 403 or not, ends stream() with that error and
\* no further reconnect.
RecoveryOnce ==
    [][/\ (InChunk /\ pc' = "execute") =>
            /\ ~recovering
            /\ recovering'
            /\ UNCHANGED <<chunks, partialText, result>>
       /\ (recovering /\ recovering') => UNCHANGED <<chunks, partialText>>
       /\ (recovering /\ InChunk /\ ~InChunk') =>
            /\ pc' \in {"finished", "texts"}
            /\ ~recovering'
       /\ pc' = "texts" => ~recovering'
      ]_vars

\* The second run of a chunk failed with a 403 again, on the socket of the
\* fourth attempt, and stream() ended with it.
RecoveryOnceWitness ==
    /\ pc = "finished"
    /\ result = SendError(403)
    /\ Len(channels) = 4
    /\ last.type = "none"

\* C17: a 403 is intercepted only when it carries a server date, and the
\* clock skew is then increased by server seconds minus local seconds
\* before the channel is reopened; without a date the failure is fatal.
SkewFollowsServerDate ==
    [][(InChunk /\ pc' = "execute") =>
          /\ serverDate'.present
          /\ clockSkewSeconds' = clockSkewSeconds + serverDate'.delta
      ]_vars

----------------------------------------------------------------------------
(* DRM alone: the clock advances, the skew is adjusted and tokens are made *)
(* in any order.                                                           *)

InitDRM ==
    /\ config = DefaultConfig
    /\ input = <<>>
    /\ text = input
    /\ byteLength = calculateMaxMessageSize(config)
    /\ gen = "run"
    /\ chunks = <<>>
    /\ InitClient
    /\ service = "turn"
    /\ IdleCodec
    /\ now \in WallClocks
    /\ generated = <<>>
    /\ deltas = <<>>

NextDRM ==
    \/ Tick
    \/ AdjustClockSkewSeconds
    \/ GenerateSecMsGec

SpecDRM == InitDRM /\ [][NextDRM]_vars

RECURSIVE Sum(_)
Sum(seq) == IF seq = <<>> THEN 0 ELSE Sum(SubSeq(seq, 1, Len(seq) - 1)) + seq[Len(seq)]

\* The 300-second window that holds wall clock + skew + 11644473600; the
\* epoch is a multiple of 300, so it shifts every window number alike.
Window(g) == (g.now.s + g.skew) \div 300

\* C18: the skew is the sum of the deltas handed to adjustClockSkewSeconds so
\* far, each call of generateSecMsGec works with that sum, and two calls
\* whose wall clock + skew + 11644473600 lie in the same 300-second window
\* return the same token.
TokenOfWindow ==
    /\ clockSkewSeconds = Sum(deltas)
    /\ \A i \in DOMAIN generated :
          generated[i].skew = Sum(SubSeq(deltas, 1, generated[i].adjusted))
    /\ \A i, j \in DOMAIN generated :
          Window(generated[i]) = Window(generated[j])
             => generated[i].token = generated[j].token

\* Two tokens were made at different clock values and under different skews
\* that fall in one window.
TokenOfWindowWitness ==
    \E i, j \in DOMAIN generated :
        /\ generated[i].now # generated[j].now
        /\ generated[i].skew # generated[j].skew
        /\ generated[i].now.s \div 300 # generated[j].now.s \div 300
        /\ Window(generated[i]) = Window(generated[j])

----------------------------------------------------------------------------
(* The job against a service whose audio.metadata frames carry arrays of   *)
(* several elements.                                                       *)

InitMeta ==
    /\ config \in JobConfigs
    /\ input \in JobTexts
    /\ text = input
    /\ byteLength = calculateMaxMessageSize(config)
    /\ gen = "run"
    /\ chunks = <<>>
    /\ InitClient
    /\ IdleDRM
    /\ service = "metadata"
    /\ IdleCodec

SpecMeta == InitMeta /\ [][Next]_vars

\* The frame is an audio.metadata frame with an element of unknown Type.
HasUnknownType(m) ==
    /\ ~m.bin
    /\ m.form = "ok"
    /\ m.path = "audio.metadata"
    /\ \E i \in DOMAIN m.meta : m.meta[i].Type \notin {"WordBoundary", "SessionEnd"}

\* streamChunk takes the message at the head of the queue.
TakesMessage ==
    /\ pc = "recv"
    /\ ~wsDone
    /\ ~wsError
    /\ messageQueue # <<>>
    /\ pc' # "recv" \/ messageQueue' = Tail(messageQueue)

\* C19: an audio.metadata frame that holds an element whose Type is neither
\* WordBoundary nor SessionEnd, at whatever place of the Metadata array,
\* makes the job fail with UnknownResponse, and the socket is closed.
UnknownTypeFails ==
    [][(TakesMessage /\ HasUnknownType(Head(messageQueue))) =>
          /\ pc' = "finished"
          /\ result' = UnknownResponse
          /\ ws' = 0
          /\ channels'[ws].readyState # "OPEN"
      ]_vars

----------------------------------------------------------------------------
(* The codec alone: a frame is built from a header map and a body, and the *)
(* frame is decoded.                                                       *)

InitCodec ==
    /\ config = DefaultConfig
    /\ input = <<>>
    /\ text = input
    /\ byteLength = calculateMaxMessageSize(config)
    /\ gen = "run"
    /\ chunks = <<>>
    /\ InitClient
    /\ IdleDRM
    /\ service = "turn"
    /\ cancelled = "no"
    /\ subtitle = "none"
    /\ frameHeaders \in HeaderLists
    /\ frameBody \in Bodies
    /\ wire = <<>>
    /\ decoded = NotDecoded

NextCodec ==
    \/ BuildFrame
    \/ OnTextFrame

SpecCodec == InitCodec /\ [][NextCodec]_vars

\* The header map the builder was given.
HeaderMap(hs) ==
    [k \in {hs[i].key : i \in DOMAIN hs} |->
        (CHOOSE h \in {hs[i] : i \in DOMAIN hs} : h.key = k).value]

\* C20: a text frame built from a header map and a body (the header lines
\* joined by CRLF, an empty line, the body) is decoded to the same header
\* map and to exactly the same body, also when a header value holds ':'.
FrameRoundTrip ==
    decoded.done =>
        /\ decoded.ok
        /\ decoded.headers = HeaderMap(frameHeaders)
        /\ decoded.content = frameBody

----------------------------------------------------------------------------
(* The chunker on texts of the shape  word, space, entity, space, "bar".   *)

Word(n) == [i \in 1..n |-> LETTER]

Entity(n) == <<AMP>> \o Word(n) \o <<SEMI>>

\* "foo &amp; bar".
FooAmpBar == Word(3) \o <<SPACE>> \o Entity(3) \o <<SPACE>> \o Word(3)

EntityTexts ==
    {Word(n) \o <<SPACE>> \o Entity(k) \o <<SPACE>> \o Word(3) : n \in 1..3, k \in 1..3}

MaxBudget == 9

InitEntity ==
    /\ input \in EntityTexts
    /\ text = input
    /\ byteLength \in 1..MaxBudget
    /\ gen = "run"
    /\ chunks = <<>>
    /\ config = DefaultConfig
    /\ InitClient
    /\ IdleDRM
    /\ service = "turn"
    /\ IdleCodec

SpecEntity == InitEntity /\ [][Iterate]_vars

\* The position of the first byte b of t, from 0.
IndexOf(t, b) == CHOOSE i \in 0..(Len(t) - 1) : t[i + 1] = b /\ \A j \in 1..i : t[j] # b

\* t without the spaces in front of it.
RECURSIVE AfterSpaces(_)
AfterSpaces(t) ==
    IF t # <<>> /\ Head(t) = SPACE THEN AfterSpaces(Tail(t)) ELSE t

\* t without the spaces at its end.
RECURSIVE BeforeSpaces(_)
BeforeSpaces(t) ==
    IF t # <<>> /\ t[Len(t)] = SPACE THEN BeforeSpaces(SubSeq(t, 1, Len(t) - 1)) ELSE t

\* C21: for the input "foo &amp; bar" and a budget B that falls between the
\* '&' and the ';' of the entity, the first chunk ends before the '&' and
\* the second chunk begins with the whole entity "&amp;" (here even with the
\* space between "foo" and the entity left to either chunk).
EntitySplitBeforeAmp ==
    (/\ input = FooAmpBar
     /\ byteLength > IndexOf(input, AMP)
     /\ byteLength < IndexOf(input, SEMI)
     /\ Len(chunks) >= 2) =>
        /\ BeforeSpaces(chunks[1]) = Word(3)
        /\ Len(AfterSpaces(chunks[2])) >= 5
        /\ SubSeq(AfterSpaces(chunks[2]), 1, 5) = Entity(3)

----------------------------------------------------------------------------
(* connect() with a caller that gives the job up while execute is          *)
(* suspended: it calls return() on the generator of stream().  The request *)
(* is queued by the generator, which is running, and is looked at when the *)
(* generator reaches a yield; nothing of connect() or execute reads it.    *)

Cancel ==
    /\ cancelled = "no"
    /\ pc \in {"opening", "waiting"}
    /\ cancelled' = pc
    /\ UNCHANGED <<splitVars, clientVars, runVars, envVars, seenVars, drmVars,
                   now, generated, deltas, service, codecVars, subtitle>>

NextCancel ==
    \/ NextConnect
    \/ Cancel

SpecCancel == InitConnect /\ [][NextCancel]_vars

\* C22: when the job is cancelled while execute waits between two attempts,
\* execute makes no further attempt, and when it returns its last event is
\* the abort event.
CancelEndsRetries ==
    [][cancelled = "waiting" =>
          /\ rlog'.invoked = rlog.invoked
          /\ rlog'.returned => rlog'.event = "abort"
      ]_vars

----------------------------------------------------------------------------
(* The job under configurations a validation would refuse: the voice, or   *)
(* one of the prosody expressions, is the empty string.                    *)

EmptyFields ==
    {[DefaultConfig EXCEPT !.voice = 0], [DefaultConfig EXCEPT !.rate = 0],
     [DefaultConfig EXCEPT !.volume = 0], [DefaultConfig EXCEPT !.pitch = 0]}

InitInvalid ==
    /\ config \in EmptyFields
    /\ input \in JobTexts
    /\ text = input
    /\ byteLength = calculateMaxMessageSize(config)
    /\ gen = "run"
    /\ chunks = <<>>
    /\ InitClient
    /\ IdleDRM
    /\ service = "turn"
    /\ IdleCodec

SpecInvalid == InitInvalid /\ [][Next]_vars

\* The voice is empty, or an expression is (an empty expression is invalid).
Invalid(cfg) == cfg.voice = 0 \/ cfg.rate = 0 \/ cfg.volume = 0 \/ cfg.pitch = 0

\* C23: a job whose voice is empty or whose rate, volume or pitch expression
\* is invalid is refused with ConfigError when it is constructed: stream()
\* never runs for it with another outcome, and no socket is ever created.
InvalidConfigRefused ==
    Invalid(config) =>
        /\ channels = <<>>
        /\ result \in {Running, ConfigError}

----------------------------------------------------------------------------
(* The job of a client configured for SRT subtitles.                       *)

InitSubtitle ==
    /\ config = DefaultConfig
    /\ input \in JobTexts
    /\ text = input
    /\ byteLength = calculateMaxMessageSize(config)
    /\ gen = "run"
    /\ chunks = <<>>
    /\ InitClient
    /\ IdleDRM
    /\ service = "words"
    /\ cancelled = "no"
    /\ subtitle = "srt"
    /\ frameHeaders = <<>>
    /\ frameBody = <<>>
    /\ wire = <<>>
    /\ decoded = NotDecoded

SpecSubtitle == InitSubtitle /\ [][Next]_vars

\* C24: with a subtitle generator configured, every word-boundary record
\* that stream() emits has been handed to the generator exactly once, with
\* its text, offset and duration, by the time it is delivered.
HookedOncePerWord ==
    [][(subtitle # "none" /\ lastWord' # lastWord) =>
          /\ Len(hooked') = Len(hooked) + 1
          /\ hooked'[Len(hooked')] =
                [text |-> lastWord'.text, start |-> lastWord'.offset,
                 duration |-> lastWord'.duration]
      ]_vars

----------------------------------------------------------------------------
(* The token against SHA-256.                                              *)

\* The SHA-256 digest, in upper-case hexadecimal digits, of the string
\* "1334447340000000006A5AA1D4EAFF4E9FB37E23D68491D6F4": the ticks of the
\* window that starts at 1699999800 (Unix), then the trusted client token.
DigestOfWindow ==
    <<"4", "2", "3", "0", "1", "B", "3", "3", "5", "5", "7", "8", "F", "E", "F", "D",
      "A", "E", "2", "6", "3", "7", "D", "E", "D", "1", "A", "B", "D", "6", "1", "4",
      "5", "0", "5", "D", "4", "3", "2", "5", "5", "9", "E", "C", "0", "8", "0", "3",
      "2", "B", "8", "2", "0", "4", "8", "4", "8", "3", "7", "2", "6", "A", "F", "F">>

\* C25: generateSecMsGec returns the SHA-256 digest of the decimal tick count
\* followed by the trusted client token, as 64 upper-case hexadecimal digits.
TokenIsSha256 ==
    \A i \in DOMAIN generated :
        /\ Len(generated[i].token) = 64
        /\ \A k \in DOMAIN generated[i].token :
              \E d \in DOMAIN HexDigits : generated[i].token[k] = HexDigits[d]
        /\ (generated[i].now.s + generated[i].skew) \div 300 = 1699999800 \div 300
              => generated[i].token = DigestOfWindow

----------------------------------------------------------------------------
(* SRTGenerator, reconnect.ts 268-287, and BaseSubtitleGenerator.generate, *)
(* reconnect.ts 247-252.  A line is the sequence of its characters; the    *)
(* text of a cue is its length.                                            *)

\* String.prototype.padStart with a pad of one character.
RECURSIVE padStart(_, _, _)
padStart(str, n, c) == IF Len(str) >= n THEN str ELSE padStart(<<c>> \o str, n, c)

\* reconnect.ts 270-281: the inner function format.
format(ms) ==
    LET totalSeconds == ms \div 1000
        hours == totalSeconds \div 3600
        minutes == (totalSeconds % 3600) \div 60
        seconds == totalSeconds % 60
        milliseconds == ms % 1000
    IN  padStart(Decimal(hours), 2, "0") \o <<":">>
        \o padStart(Decimal(minutes), 2, "0") \o <<":">>
        \o padStart(Decimal(seconds), 2, "0") \o <<",">>
        \o padStart(Decimal(milliseconds), 3, "0")

\* reconnect.ts 269-283.
formatTimestamp(timestamp) ==
    format(timestamp.start) \o <<" ", "-", "-", ">", " ">> \o format(timestamp.end)

\* reconnect.ts 285-287: the three lines of a cue.
formatCue(cue) ==
    [index |-> Decimal(cue.index), timestamp |-> formatTimestamp(cue.timestamp),
     text |-> cue.text]

\* Array.prototype.sort by timestamp.start; the sort is stable.
RECURSIVE sortByStart(_)
sortByStart(cs) ==
    IF cs = <<>> THEN cs
    ELSE LET rest == sortByStart(SubSeq(cs, 1, Len(cs) - 1))
             c == cs[Len(cs)]
             k == Cardinality({i \in DOMAIN rest : rest[i].timestamp.start <= c.timestamp.start})
         IN  SubSeq(rest, 1, k) \o <<c>> \o SubSeq(rest, k + 1, Len(rest))

\* websocket_client.ts 133-138 and reconnect.ts 247-252: the cues of
\* getSubtitles(), in the order of the output.
getSubtitles(cs) == [i \in DOMAIN cs |-> formatCue(sortByStart(cs)[i])]

IsDigit(c) == \E d \in 1..10 : c = HexDigits[d]

\* The line has the form HH:MM:SS,mmm --> HH:MM:SS,mmm.
IsSrtTimestamp(line) ==
    /\ Len(line) = 29
    /\ \A k \in 1..29 :
          CASE k \in {3, 6, 20, 23} -> line[k] = ":"
            [] k \in {9, 26} -> line[k] = ","
            [] k \in {13, 17} -> line[k] = " "
            [] k \in {14, 15} -> line[k] = "-"
            [] k = 16 -> line[k] = ">"
            [] OTHER -> IsDigit(line[k])

\* C26: when stream() of a client configured for SRT subtitles has been
\* consumed to its end, every cue of getSubtitles() is a numeric index, a
\* timestamp line of the form HH:MM:SS,mmm --> HH:MM:SS,mmm and a text line
\* that is not empty, whatever word boundaries the service sent.
SrtWellFormed ==
    (subtitle = "srt" /\ pc = "finished" /\ result = Completed) =>
        \A i \in DOMAIN cues :
            LET cue == getSubtitles(cues)[i]
            IN  /\ cue.index # <<>>
                /\ \A k \in DOMAIN cue.index : IsDigit(cue.index[k])
                /\ IsSrtTimestamp(cue.timestamp)
                /\ cue.text > 0

----------------------------------------------------------------------------
(* Frames in the queue when the socket closes.                             *)

\* C27: a frame that arrived before the turn.end frame is not dropped when
\* the close or error event fires while it is still queued: the loop takes
\* the frame at the head of the queue before it ends.
QueuedFramesSurviveClose ==
    [][(/\ pc = "recv"
        /\ wsDone \/ wsError
        /\ messageQueue # <<>>
        /\ OnMessage(Head(messageQueue), offsetCompensation).act \in {"yield", "skip"})
          => ((pc' # pc \/ messageQueue' # messageQueue)
                 => /\ messageQueue' = Tail(messageQueue)
                    /\ pc' \in {"recv", "yield"})]_vars

----------------------------------------------------------------------------
(* The order of the frames of a turn.                                      *)

\* C28: frames are accepted in the order response, turn.start, audio and
\* audio.metadata, turn.end only: when the first frame a socket delivers is
\* a well-formed audio, audio.metadata, turn.start or turn.end frame, taking
\* it fails the chunk with UnexpectedResponse.
OutOfOrderFails ==
    [][(/\ pc = "recv"
        /\ ~(wsDone \/ wsError)
        /\ messageQueue # <<>>
        /\ Head(messageQueue).n = 1
        /\ Head(messageQueue).form = "ok"
        /\ Head(messageQueue).path \in {"audio", "audio.metadata", "turn.start", "turn.end"}
        /\ messageQueue' # messageQueue)
          => result' = UnexpectedResponse]_vars

----------------------------------------------------------------------------
(* The records of an audio.metadata frame.                                 *)

\* The WordBoundary elements of a Metadata array, in array order.
WordBoundariesOf(meta) == SelectSeq(meta, LAMBDA e : e.Type = "WordBoundary")

\* The frame is an audio.metadata frame whose elements are all of a Type the
\* client knows.
HasKnownTypes(m) ==
    /\ ~m.bin
    /\ m.form = "ok"
    /\ m.path = "audio.metadata"
    /\ \A i \in DOMAIN m.meta : m.meta[i].Type \in {"WordBoundary", "SessionEnd"}

\* C29: an audio.metadata frame gives one word-boundary record per
\* WordBoundary element of its Metadata array, in array order; SessionEnd
\* elements give no record and no error: a frame that holds only SessionEnd
\* elements is skipped and the chunk goes on, and a frame with WordBoundary
\* elements delivers the record of the first of them first.
MetadataFrameRecords ==
    [][(TakesMessage /\ HasKnownTypes(Head(messageQueue))) =>
          LET words == WordBoundariesOf(Head(messageQueue).meta)
          IN  /\ result' = result
              /\ messageQueue' = Tail(messageQueue)
              /\ IF words = <<>>
                 THEN pc' = "recv" /\ pending' = pending /\ last' = last
                 ELSE /\ pc' = "yield"
                      /\ pending'.type = "WordBoundary"
                      /\ pending'.dataOffset = words[1].Offset
                      /\ pending'.duration = words[1].Duration]_vars

----------------------------------------------------------------------------
(* The job against a service that sends frames that are not well formed.   *)

InitRaw ==
    /\ config \in JobConfigs
    /\ input \in JobTexts
    /\ text = input
    /\ byteLength = calculateMaxMessageSize(config)
    /\ gen = "run"
    /\ chunks = <<>>
    /\ InitClient
    /\ IdleDRM
    /\ service = "raw"
    /\ IdleCodec

SpecRaw == InitRaw /\ [][Next]_vars

\* The frame, as the service wrote it, is not well formed.
Malformed(m) ==
    IF ~m.bin THEN ~m.wrote.delimited
    ELSE \/ m.wrote.length < 2
         \/ m.wrote.H > m.wrote.length
         \/ /\ m.wrote.path = AudioPath
            /\ \/ m.wrote.ctype.present /\ m.wrote.ctype.value # AudioMpeg
               \/ ~m.wrote.ctype.present /\ m.wrote.body > 0
               \/ m.wrote.ctype.present /\ m.wrote.body = 0

\* C30: a frame that is not well formed (a text frame without CRLF CRLF, a
\* binary frame of less than 2 bytes, a binary frame whose header length is
\* greater than its length, an audio frame whose Content-Type is neither
\* audio/mpeg nor absent, or absent with data, or present without data)
\* fails the chunk with UnexpectedResponse; no record is delivered for it
\* and the socket is closed.
MalformedFails ==
    [][(TakesMessage /\ Malformed(Head(messageQueue))) =>
          /\ result' = UnexpectedResponse
          /\ pending' = pending
          /\ last' = last
          /\ channels'[ws].readyState = "CLOSED"]_vars

----------------------------------------------------------------------------
(* Frames of a Path the client does not know.                              *)

\* The frame is well formed and its Path is missing or is none of response,
\* turn.start, audio.metadata, audio, turn.end.
HasUnknownPath(m) ==
    /\ m.form = "ok"
    /\ m.path \notin {"response", "turn.start", "audio.metadata", "audio", "turn.end"}

\* C31: a frame, text or binary, whose Path is missing or is not one of
\* response, turn.start, audio.metadata, audio, turn.end fails the chunk
\* with UnknownResponse.
UnknownPathFails ==
    [][(TakesMessage /\ HasUnknownPath(Head(messageQueue)))
          => result' = UnknownResponse]_vars

----------------------------------------------------------------------------
(* state.lastDurationOffset after a word boundary.                         *)

\* C32: when a WordBoundary element has been processed (the consumer has
\* taken its record and streamChunk goes on), lastDurationOffset is the
\* element's Data.Offset + Data.Duration, without offsetCompensation, in
\* every chunk of the job.
LastDurationUncompensated ==
    [][(pc = "yield" /\ pending.type = "WordBoundary" /\ pc' = "recv")
          => lastDurationOffset' = pending.dataOffset + pending.duration]_vars

----------------------------------------------------------------------------
(* The requests of a channel.                                              *)

\* C33: on a channel the client sends one speech.config message and then one
\* SSML message and nothing else, and both are sent before a frame of the
\* channel is processed.
RequestsOncePerChannel ==
    /\ Len(sent) <= 2
    /\ Len(sent) >= 1 => sent[1].path = "speech.config"
    /\ Len(sent) >= 2 => sent[2].path = "ssml"
    /\ pc \in {"recv", "yield"} => Len(sent) = 2
    /\ last.type # "none" /\ last.chan = ws => Len(sent) = 2

\* A record of the second channel is with the consumer: the two requests of
\* that channel, and no others, were sent on it.
RequestsOncePerChannelWitness ==
    /\ pc = "yield"
    /\ pending.chan = 2
    /\ pending.chunk = 2
    /\ Len(sent) = 2

----------------------------------------------------------------------------
(* The delays of one execute.                                              *)

\* The delay of the k-th wait: initialDelay, then each time the smaller of
\* the delay times backoffFactor and maxDelay.
RECURSIVE DelayAt(_, _)
DelayAt(cfg, k) ==
    IF k <= 1 THEN cfg.initialDelay
    ELSE LET next == DelayAt(cfg, k - 1) * cfg.backoffFactor
         IN  IF next < cfg.maxDelay THEN next ELSE cfg.maxDelay

RECURSIVE DelaySum(_, _)
DelaySum(cfg, k) == IF k <= 0 THEN 0 ELSE DelaySum(cfg, k - 1) + DelayAt(cfg, k)

\* C34: within one execute the delay starts at initialDelay, a wait of
\* currentDelay follows every failed attempt but the last, and after each
\* wait currentDelay is min(currentDelay * backoffFactor, maxDelay); so when
\* maxRetries attempts have failed the time waited is the sum of the first
\* maxRetries - 1 terms of that sequence.
BackoffSchedule ==
    /\ \A k \in DOMAIN rlog.waited : rlog.waited[k] = DelayAt(rconfig, k)
    /\ rstate.currentDelay = DelayAt(rconfig, Len(rlog.waited) + 1)
    /\ pc = "waiting" => Len(rlog.waited) = rstate.attempts - 1
    /\ pc \in {"execute", "opening"} => Len(rlog.waited) = rstate.attempts
    /\ (rlog.returned /\ rlog.event = "failure") =>
          /\ rstate.attempts = rconfig.maxRetries
          /\ Len(rlog.waited) = rconfig.maxRetries - 1
          /\ Sum(rlog.waited) = DelaySum(rconfig, rconfig.maxRetries - 1)

\* Three attempts have failed and the two waits between them differ.
BackoffScheduleWitness ==
    /\ rlog.returned
    /\ rlog.event = "failure"
    /\ rconfig.maxRetries = 3
    /\ Len(rlog.waited) = 2
    /\ rlog.waited[1] < rlog.waited[2]

----------------------------------------------------------------------------
(* The events of one execute.                                              *)

Terminal == {"success", "failure", "abort"}

\* The events of the given kinds, in the order they were emitted.
EventsOf(log, kinds) == SelectSeq(log.events, LAMBDA e : e.type \in kinds)

\* C35: during one execute every invocation of the operation comes with an
\* attempt event emitted just before it, numbered 1, 2, ... in order and
\* carrying the delay of that moment, and execute emits one terminal event,
\* success, failure or abort, as its last event.
EventsInOrder ==
    LET attempts == EventsOf(rlog, {"attempt"})
        terminal == EventsOf(rlog, Terminal)
    IN  /\ Len(attempts) = rlog.invoked
        /\ \A n \in DOMAIN attempts :
              /\ attempts[n].attempt = n
              /\ attempts[n].delay = DelayAt(rconfig, n)
        /\ Len(terminal) <= 1
        /\ rlog.returned <=> Len(terminal) = 1
        /\ Len(terminal) = 1 => rlog.events[Len(rlog.events)].type \in Terminal
        /\ pc = "opening" => rlog.events[Len(rlog.events)].type = "attempt"

\* The third invocation of the operation succeeded: three attempt events,
\* then success.
EventsInOrderWitness ==
    /\ rlog.returned
    /\ rlog.invoked = 3
    /\ rlog.event = "success"
    /\ Len(rlog.events) = 4

\* C39: execute invokes the operation at least once under every
\* configuration, maxRetries = 0 included: connect() does not return without
\* an attempt to open a socket.
InvokedAtLeastOnce == rlog.returned => rlog.invoked >= 1

\* C40: within one execute no wait between two attempts is longer than
\* maxDelay, whatever initialDelay, backoffFactor and maxDelay are.
WaitsWithinMaxDelay ==
    \A k \in DOMAIN rlog.waited : rlog.waited[k] <= rconfig.maxDelay

----------------------------------------------------------------------------
(* Binary frames: websocket_client.ts 356-366 with helpers.ts 108-124.  A  *)
(* byte of the length is the character ByteChars[v + 1] of its value v.    *)

ByteChars ==
    <<"#0", "#1", "#2", "#3", "#4", "#5", "#6", "#7", "#8", "#9", "#10", "#11",
      "#12", "#13", "#14", "#15", "#16", "#17", "#18", "#19", "#20", "#21", "#22",
      "#23", "#24", "#25", "#26", "#27", "#28", "#29", "#30", "#31">>

\* The value of a byte.
ByteValue(c) == (CHOOSE i \in DOMAIN ByteChars : ByteChars[i] = c) - 1

\* The two bytes of a length, the high byte first.
BigEndian(n) == <<ByteChars[(n \div 256) + 1], ByteChars[(n % 256) + 1]>>

\* websocket_client.ts 361: (view[0] << 8) | view[1].
HeaderLength(view) == ByteValue(view[1]) * 256 + ByteValue(view[2])

\* websocket_client.ts 356-366: the head of the binary branch of streamChunk.
DecodeBinaryFrame(view) ==
    IF Len(view) < 2 THEN [NotDecoded EXCEPT !.done = TRUE]
    ELSE IF HeaderLength(view) > Len(view) THEN [NotDecoded EXCEPT !.done = TRUE]
    ELSE LET p == parseHeadersAndData(view, HeaderLength(view))
         IN  [done |-> TRUE, ok |-> TRUE, headers |-> p.headers, content |-> p.content]

\* The service builds a binary frame: the length of the header text, the
\* header lines, CRLF, the body.  The length counts the closing CRLF or not.
BuildBinaryFrame ==
    /\ wire = <<>>
    /\ \E closing \in {<<>>, CRLFChars} :
          LET headerText ==
                 join([i \in 1..Len(frameHeaders) |-> HeaderLine(frameHeaders[i])],
                      CRLFChars) \o closing
          IN  wire' = BigEndian(Len(headerText)) \o headerText
                      \o (IF closing = <<>> THEN CRLFChars ELSE <<>>) \o frameBody
    /\ UNCHANGED <<splitVars, clientVars, runVars, envVars, seenVars, drmVars,
                   now, generated, deltas, service, frameHeaders, frameBody, decoded,
                   cancelled, subtitle>>

\* The frame arrives and is decoded.
OnBinaryFrame ==
    /\ wire # <<>>
    /\ ~decoded.done
    /\ decoded' = DecodeBinaryFrame(wire)
    /\ UNCHANGED <<splitVars, clientVars, runVars, envVars, seenVars, drmVars,
                   now, generated, deltas, service, frameHeaders, frameBody, wire,
                   cancelled, subtitle>>

NextBinary ==
    \/ BuildBinaryFrame
    \/ OnBinaryFrame

SpecBinary == InitCodec /\ [][NextBinary]_vars

\* C36: a binary frame whose first two bytes give the header length H, H not
\* greater than the length of the frame, is decoded to the headers of the
\* text of bytes [2, 2 + H) and to the body of bytes [2 + H + 2, end).
BinaryFrameLayout ==
    (decoded.done /\ HeaderLength(wire) <= Len(wire)) =>
        LET H == HeaderLength(wire)
        IN  /\ decoded.ok
            /\ decoded.headers = parseLines(split(SubSeq(wire, 3, 2 + H), CRLFChars), EmptyMap)
            /\ decoded.content = SubSeq(wire, 2 + H + 2 + 1, Len(wire))

----------------------------------------------------------------------------
(* Audio frames without data.                                              *)

\* The frame is a binary audio frame without Content-Type and without data.
IsEmptyAudio(m) ==
    /\ m.bin
    /\ m.form = "ok"
    /\ m.path = "audio"
    /\ m.ctype = "absent"
    /\ m.body = 0

\* C37: every audio record stream() delivers carries data, and a binary
\* audio frame that has no Content-Type and an empty body delivers no
\* record and does not count as received audio.
AudioHasData ==
    [][/\ (pc' = "yield" /\ pending'.type = "audio") => pending'.size > 0
       /\ (TakesMessage /\ IsEmptyAudio(Head(messageQueue))) =>
             /\ pc' = "recv"
             /\ last' = last
             /\ audioReceived' = audioReceived]_vars

----------------------------------------------------------------------------
(* The chunker on UTF-8 texts with characters of two and three bytes, and  *)
(* TextDecoder.decode (helpers.ts 131-133), which escapeText applies to a  *)
(* chunk when the markup is built.                                         *)

MaxChars == 3

\* "é" and "€" in UTF-8.
EAcute == <<195, 169>>
Euro == <<226, 130, 172>>

Utf8Chars == {<<LETTER>>, <<SPACE>>, EAcute, Euro}

RECURSIVE Flatten(_)
Flatten(ss) == IF ss = <<>> THEN <<>> ELSE Head(ss) \o Flatten(Tail(ss))

\* The texts of at most MaxChars characters, as bytes.
Utf8Texts == {Flatten(cs) : cs \in UNION {[1..n -> Utf8Chars] : n \in 0..MaxChars}}

\* U+FFFD, which the decoder puts for bytes that are no character.
REPLACEMENT == 65533

IsContinuation(b) == b \in 128..191

\* TextDecoder.decode for characters of up to three bytes: the code points.
RECURSIVE decode(_)
decode(bs) ==
    IF bs = <<>> THEN <<>>
    ELSE LET b == bs[1]
             n == Len(bs)
         IN  IF b < 128 THEN <<b>> \o decode(Tail(bs))
             ELSE IF b \in 192..223
             THEN IF n >= 2 /\ IsContinuation(bs[2])
                  THEN <<(b - 192) * 64 + (bs[2] - 128)>> \o decode(SubSeq(bs, 3, n))
                  ELSE <<REPLACEMENT>> \o decode(Tail(bs))
             ELSE IF b \in 224..239
             THEN IF n >= 3 /\ IsContinuation(bs[2]) /\ IsContinuation(bs[3])
                  THEN <<(b - 224) * 4096 + (bs[2] - 128) * 64 + (bs[3] - 128)>>
                       \o decode(SubSeq(bs, 4, n))
                  ELSE IF n >= 2 /\ IsContinuation(bs[2])
                  THEN <<REPLACEMENT>> \o decode(SubSeq(bs, 3, n))
                  ELSE <<REPLACEMENT>> \o decode(Tail(bs))
             ELSE <<REPLACEMENT>> \o decode(Tail(bs))

InitUtf8 ==
    /\ input \in Utf8Texts
    /\ text = input
    /\ byteLength \in 1..MaxByteLength
    /\ gen = "run"
    /\ chunks = <<>>
    /\ config = DefaultConfig
    /\ InitClient
    /\ IdleDRM
    /\ service = "turn"
    /\ IdleCodec

SpecUtf8 == InitUtf8 /\ [][Iterate]_vars

\* C38: for a text of valid UTF-8 and a budget greater than 0 no chunk ends
\* inside a character of several bytes: every chunk decodes to characters of
\* the input, and the chunks together decode to the input.
NoCharacterCut ==
    /\ \A i \in DOMAIN chunks :
          \A k \in DOMAIN decode(chunks[i]) : decode(chunks[i])[k] # REPLACEMENT
    /\ gen = "done" =>
          Flatten([i \in DOMAIN chunks |-> decode(chunks[i])]) = decode(input)

====
